---- MODULE Spec2Model ----
(***************************************************************************)
(* Model of the MRP engine of nodrej/mrp-mvp (src/backend/mrp.py) and of   *)
(* the CRUD handlers of src/backend/main.py that feed it.                  *)
(*                                                                         *)
(* Quantities are the Numeric(15, 2) columns of models.py: an integer n     *)
(* counts hundredths of a unit (n = 100 is Decimal(1)); quantity_per is a  *)
(* whole multiplier.  Dates are integer day numbers, weeks integer week    *)
(* numbers.  A Python dict is a TLA+ function whose DOMAIN is its key set. *)
(***************************************************************************)
EXTENDS Integers, Sequences, FiniteSets, TLC

VARIABLES
    products,         \* products table: id -> Product row
    bom_lines,        \* bom_lines table: set of BOMLine rows
    daily_demand,     \* daily_demand table: set of DailyDemand rows
    inventory,        \* inventory table: product_id -> on_hand (a dict: no key, no row)
    purchase_orders,  \* purchase_orders table: set of PurchaseOrder rows
    mrp_results,      \* mrp_results table as committed: set of MRPResult rows
    today,            \* date.today(): the handlers modelled run within one day
    pc,               \* where a calculate_mrp run in progress stands ("idle": none)
    weekly_shipments, \* weekly_shipments table: set of WeeklyShipment rows
    response          \* what the last call returned (or raised) to its caller

vars == <<products, bom_lines, daily_demand, inventory, purchase_orders,
          mrp_results, today, pc, weekly_shipments, response>>

-----------------------------------------------------------------------------
(* Bounds of the model *)

MaxDays == 2        \* largest horizon `days` passed to calculate_mrp / get_shortages
MaxOnHand == 10     \* adjustments stop once on_hand would pass this
MaxPOs == 1         \* purchase order numbers are 1..MaxPOs
MaxChain == 11      \* longest chain of nested sub-assemblies entered as a BOM
MaxDemandQty == 2   \* largest quantity handed to explode_bom_recursive directly

(* Program constant: the recursion guard of explode_bom_recursive *)
MaxLevel == 10

-----------------------------------------------------------------------------
(* Python helpers *)

None == <<>>
Some(x) == <<x>>

\* dict.get(key, 0)
Get(d, key) == IF key \in DOMAIN d THEN d[key] ELSE 0

EmptyDict == [k \in {} |-> 0]

\* AddTo with the accumulation lost: d[key] = qty
AddTo_overwrite(d, key, qty) ==
    [k \in DOMAIN d \cup {key} |-> IF k = key THEN qty ELSE d[k]]

\* d[key] = d.get(key, 0) + qty
AddTo(d, key, qty) ==
    [k \in DOMAIN d \cup {key} |-> IF k = key THEN Get(d, key) + qty ELSE d[k]]

RECURSIVE SumOver(_, _)
\* sum of f[x] over the finite set S
SumOver(f, S) ==
    IF S = {} THEN 0
    ELSE LET x == CHOOSE y \in S : TRUE
         IN  f[x] + SumOver(f, S \ {x})

-----------------------------------------------------------------------------
(* BOM Resolver: MRPEngine.explode_bom_recursive *)

\* outcome of a call: the returned dict, or the ValueError
Raised == [raised |-> TRUE, requirements |-> EmptyDict]
Returned(requirements) == [raised |-> FALSE, requirements |-> requirements]

RECURSIVE MergeInto(_, _, _)
\* for comp_id, qty in sub_reqs.items(): requirements[comp_id] = requirements.get(comp_id, 0) + qty
MergeInto(requirements, sub_reqs, keys) ==
    IF keys = {} THEN requirements
    ELSE LET comp_id == CHOOSE k \in keys : TRUE
         IN  MergeInto(AddTo(requirements, comp_id, sub_reqs[comp_id]),
                       sub_reqs, keys \ {comp_id})

\* RequiredQty with the multiplication lost
RequiredQty_ignores_quantity_per(demand_qty, line) == demand_qty

\* required_qty = demand_qty * line.quantity_per
RequiredQty(demand_qty, line) == demand_qty * line.quantity_per

\* DepthExceeded one level early: level >= 10
DepthExceeded_off_by_one(level) == level >= MaxLevel

\* if level > 10: raise ValueError
DepthExceeded(level) == level > MaxLevel

\* NoComponentRecord with the missing record not noticed
NoComponentRecord_unnoticed(line) == FALSE

\* line.component_product is None when no Product row has the line's component
\* id (the foreign key is not enforced), and `component.type` then raises
NoComponentRecord(line) == line.component_product_id \notin DOMAIN products

\* LeafKey with the requirement booked on the parent of the line
LeafKey_parent(line) == line.parent_product_id

\* requirements[component.id]: a leaf line's quantity goes under its component
LeafKey(line) == line.component_product_id

RECURSIVE explode_bom_recursive(_, _, _)
RECURSIVE ExplodeLines(_, _, _, _)

\* the body of `for line in bom_lines`, over the lines not yet visited
ExplodeLines(lines, demand_qty, level, requirements) ==
    IF lines = {} THEN Returned(requirements)
    ELSE LET line == CHOOSE l \in lines : TRUE
             required_qty == RequiredQty(demand_qty, line)
         IN  IF NoComponentRecord(line) THEN Raised
             ELSE IF /\ line.component_product_id \in DOMAIN products
                     /\ products[line.component_product_id].type = "sub_assembly"
             THEN LET sub == explode_bom_recursive(line.component_product_id,
                                                   required_qty, level + 1)
                  IN  IF sub.raised THEN Raised
                      ELSE ExplodeLines(lines \ {line}, demand_qty, level,
                              MergeInto(requirements, sub.requirements,
                                        DOMAIN sub.requirements))
             ELSE ExplodeLines(lines \ {line}, demand_qty, level,
                      AddTo(requirements, LeafKey(line), required_qty))

explode_bom_recursive(product_id, demand_qty, level) ==
    IF DepthExceeded(level) THEN Raised
    ELSE ExplodeLines({l \in bom_lines : l.parent_product_id = product_id},
                      demand_qty, level, EmptyDict)

-----------------------------------------------------------------------------
(* Demand aggregation and per-product explosion *)

\* MRPEngine.get_demand_forecast: {day_offset: quantity}, 0 where no row
get_demand_forecast(product_id, days) ==
    [day_offset \in 0..(days - 1) |->
        LET rows == {r \in daily_demand : /\ r.product_id = product_id
                                          /\ r.demand_date = today + day_offset}
        IN  IF rows = {} THEN 0 ELSE (CHOOSE r \in rows : TRUE).quantity]

RaisedReqs == [raised |-> TRUE, component_requirements |-> EmptyDict]

\* DemandToExplode with the days without demand exploded too
DemandToExplode_every_day(demand_qty) == TRUE

\* if demand_qty > 0: only these days are exploded
DemandToExplode(demand_qty) == demand_qty > 0

\* MRPEngine.explode_bom: {component_id: {day_offset: quantity_required}}
explode_bom(product_id, demand_data) ==
    LET demand_days == {d \in DOMAIN demand_data : DemandToExplode(demand_data[d])}
        daily_reqs == [d \in demand_days |->
                          explode_bom_recursive(product_id, demand_data[d], 0)]
    IN  IF \E d \in demand_days : daily_reqs[d].raised THEN RaisedReqs
        ELSE [raised |-> FALSE,
              component_requirements |->
                [component_id \in UNION {DOMAIN daily_reqs[d].requirements : d \in demand_days} |->
                    [d \in {x \in demand_days : component_id \in DOMAIN daily_reqs[x].requirements} |->
                        daily_reqs[d].requirements[component_id]]]]

\* AccumulateRequirement with the sum lost: the last product's quantity wins
AccumulateRequirement_overwrite(previous, qty) == qty

\* total_component_requirements[comp_id][day] = total...get(day, 0) + qty
AccumulateRequirement(previous, qty) == previous + qty

RECURSIVE AccumulateDays(_, _, _)
\* for day, qty in daily_reqs.items(): accumulate into one component's dict
AccumulateDays(total_days, daily_reqs, days_left) ==
    IF days_left = {} THEN total_days
    ELSE LET day == CHOOSE d \in days_left : TRUE
         IN  AccumulateDays(
                 [d \in DOMAIN total_days \cup {day} |->
                     IF d = day
                     THEN AccumulateRequirement(Get(total_days, day), daily_reqs[day])
                     ELSE total_days[d]],
                 daily_reqs, days_left \ {day})

RECURSIVE AccumulateComponents(_, _, _)
\* for comp_id, daily_reqs in component_reqs.items(): accumulate one product's requirements
AccumulateComponents(total, component_reqs, comps_left) ==
    IF comps_left = {} THEN total
    ELSE LET comp_id == CHOOSE c \in comps_left : TRUE
             before == IF comp_id \in DOMAIN total THEN total[comp_id] ELSE EmptyDict
             after == AccumulateDays(before, component_reqs[comp_id],
                                     DOMAIN component_reqs[comp_id])
         IN  AccumulateComponents(
                 [c \in DOMAIN total \cup {comp_id} |->
                     IF c = comp_id THEN after ELSE total[c]],
                 component_reqs, comps_left \ {comp_id})

\* ExplosionFailed with the error caught and the product skipped
ExplosionFailed_swallowed(component_reqs) == FALSE

\* explode_bom raised: nothing in calculate_mrp catches it, so the loop is left
ExplosionFailed(component_reqs) == component_reqs.raised

RECURSIVE ProcessFinishedGoods(_, _, _)
\* for product in finished_goods: explode and accumulate; a raise leaves the loop
ProcessFinishedGoods(goods_left, days, total) ==
    IF goods_left = {} THEN [raised |-> FALSE, component_requirements |-> total]
    ELSE LET product_id == CHOOSE p \in goods_left : \A q \in goods_left : p <= q
             component_reqs == explode_bom(product_id, get_demand_forecast(product_id, days))
         IN  IF ExplosionFailed(component_reqs) THEN RaisedReqs
             ELSE ProcessFinishedGoods(goods_left \ {product_id}, days,
                      AccumulateComponents(total, component_reqs.component_requirements,
                                           DOMAIN component_reqs.component_requirements))

\* the active finished goods
FinishedGoods ==
    {p \in DOMAIN products : products[p].type = "finished_good" /\ products[p].is_active}

-----------------------------------------------------------------------------
(* Time-phased netting: the projection loop of MRPEngine.calculate_mrp *)

\* `projected` is a double: on_hand less the requirements of the days so far,
\* subtracted one by one.  This holds when the double lies below the exact
\* balance: of the balances the model computes, those from 0.30 once a 0.10 or
\* a 0.20 has been subtracted (0.30 - 0.10 - 0.10 and 0.30 - 0.20 evaluate to
\* 0.09999999999999998, 0.30 - 0.10 - 0.20 to -2.7755575615628914e-17).
BelowExact(on_hand, subtracted) ==
    on_hand = 30 /\ \E i \in DOMAIN subtracted : subtracted[i] > 0

\* projected < float(bound), for a bound of two decimals
FloatLess(projected, below_exact, bound) ==
    projected < bound \/ (below_exact /\ projected = bound)

\* the MRPResult row built for one day; the column keeps two decimals of
\* Decimal(str(projected))
MRPResultRow(component_id, current_date, projected, below_exact, reorder_point) ==
    [product_id |-> component_id,
     result_date |-> current_date,
     projected_onhand |-> projected,
     needs_ordering |-> FloatLess(projected, below_exact, reorder_point),
     shortage_date |-> IF FloatLess(projected, below_exact, 0)
                       THEN Some(current_date) ELSE None]

\* the running balance after day_offset: projected -= day_requirement, from on_hand
RECURSIVE Projected(_, _, _)
Projected(on_hand, daily_reqs, day_offset) ==
    IF day_offset < 0 THEN on_hand
    ELSE Projected(on_hand, daily_reqs, day_offset - 1) - Get(daily_reqs, day_offset)

\* rows added for one component; none when the Product row is missing
ComponentRows(component_id, daily_reqs, days) ==
    IF component_id \notin DOMAIN products THEN {}
    ELSE LET on_hand == Get(inventory, component_id)
         IN  {MRPResultRow(component_id, today + day_offset,
                           Projected(on_hand, daily_reqs, day_offset),
                           BelowExact(on_hand, [d \in 1..(day_offset + 1) |->
                                                   Get(daily_reqs, d - 1)]),
                           products[component_id].reorder_point) :
                 day_offset \in 0..(days - 1)}

\* all rows added by one run
ProjectionRows(total_component_requirements, days) ==
    UNION {ComponentRows(component_id, total_component_requirements[component_id], days) :
              component_id \in DOMAIN total_component_requirements}

\* the 'shortages' list of the returned dict, as a set of entries: the first
\* day of each component on which `projected < 0` held
RunShortages(rows) ==
    {[product_id |-> r.product_id, shortage_date |-> r.result_date,
      projected_inventory |-> r.projected_onhand] :
        r \in {x \in rows : /\ x.shortage_date # None
                            /\ \A y \in rows : (y.product_id = x.product_id
                                                /\ y.shortage_date # None)
                                               => x.result_date <= y.result_date}}

-----------------------------------------------------------------------------
(* Shortage & lot-sizing advisor *)

\* Decimal(1), in hundredths
DecimalOne == 100

\* The pairs <<qty, lot_size>>, among those handed to Ceil below, whose double
\* quotient float(qty) / float(lot_size) lies above the exact quotient although
\* that is a whole number: 8.40 / 1.20 evaluates to 7.000000000000001.
InexactQuotients == {<<840, 120>>}

\* Ceil with the operands of the division exchanged
Ceil_swapped(qty, lot_size) == -((-lot_size) \div qty)

\* math.ceil(float(qty) / float(lot_size)), for qty > 0 and lot_size > 0
Ceil(qty, lot_size) ==
    -((-qty) \div lot_size) + (IF <<qty, lot_size>> \in InexactQuotients THEN 1 ELSE 0)

\* round_up_to_lot_size without the raise to the minimum order quantity
round_up_to_lot_size_skips_minimum(qty, lot_size, minimum) ==
    IF qty <= 0 THEN 0
    ELSE IF lot_size > 0 THEN Ceil(qty, lot_size) * lot_size
    ELSE qty

\* MRPEngine.round_up_to_lot_size
round_up_to_lot_size(qty, lot_size, minimum) ==
    IF qty <= 0 THEN 0
    ELSE LET raised_qty == IF qty < minimum THEN minimum ELSE qty
         IN  IF lot_size > 0 THEN Ceil(raised_qty, lot_size) * lot_size
             ELSE raised_qty

\* `x or default` on a number
OrDefault(x, default) == IF x = 0 THEN default ELSE x

\* recommended_qty of get_shortages: the product's fields, defaulted, then lot-sized
RecommendedQty(product) ==
    round_up_to_lot_size(OrDefault(product.reorder_qty, 0),
                         OrDefault(product.order_multiple, DecimalOne),
                         OrDefault(product.minimum_order_qty, 0))

\* the filter of the query: needs_ordering == True, result_date <= cutoff_date
ShortageResults(days) ==
    {r \in mrp_results : r.needs_ordering /\ r.result_date <= today + days}

\* product_shortages[product_id]: the row kept for a product (the earliest)
EarliestResult(shortage_results, product_id) ==
    CHOOSE r \in shortage_results :
        /\ r.product_id = product_id
        /\ \A o \in shortage_results :
              o.product_id = product_id => r.result_date <= o.result_date

\* shortage_date = result.shortage_date or result.result_date
AlertShortageDate(result) ==
    IF result.shortage_date # None THEN result.shortage_date[1] ELSE result.result_date

\* the ShortageAlert built for one kept row
BuildAlert(result) ==
    LET product == products[result.product_id]
        lead_time == product.lead_time_days
        shortage_date == AlertShortageDate(result)
    IN  [product_id |-> result.product_id,
         on_hand |-> Get(inventory, result.product_id),
         shortage_date |-> shortage_date,
         order_by_date |-> shortage_date - lead_time,
         reorder_point |-> product.reorder_point,
         reorder_qty |-> product.reorder_qty,
         recommended_order_qty |-> RecommendedQty(product),
         lead_time_days |-> lead_time]

\* AlertEmitted with the test on order_by_date dropped
AlertEmitted_always(alert, days) == TRUE

\* if order_by_date <= date.today() + timedelta(days=days)
AlertEmitted(alert, days) == alert.order_by_date <= today + days

\* SortedInsert placing an element before its equals: an unstable sort
SortedInsert_before_equals(sorted, alert) ==
    LET k == Cardinality({i \in 1..Len(sorted) :
                             sorted[i].order_by_date < alert.order_by_date})
    IN  SubSeq(sorted, 1, k) \o <<alert>> \o SubSeq(sorted, k + 1, Len(sorted))

\* list.sort(key=order_by_date): stable, so an element goes after its equals
SortedInsert(sorted, alert) ==
    LET k == Cardinality({i \in 1..Len(sorted) :
                             sorted[i].order_by_date <= alert.order_by_date})
    IN  SubSeq(sorted, 1, k) \o <<alert>> \o SubSeq(sorted, k + 1, Len(sorted))

RECURSIVE SortByOrderByDate(_)
SortByOrderByDate(alerts) ==
    IF alerts = <<>> THEN <<>>
    ELSE SortedInsert(SortByOrderByDate(SubSeq(alerts, 1, Len(alerts) - 1)),
                      alerts[Len(alerts)])

\* the sequences that list every element of S once
Orderings(S) ==
    {o \in [1..Cardinality(S) -> S] : \A i, j \in DOMAIN o : i # j => o[i] # o[j]}

RECURSIVE BuildAlerts(_, _, _)
\* for product_id, result in product_shortages.items(): append the alerts that pass
BuildAlerts(shortage_results, order, days) ==
    IF order = <<>> THEN <<>>
    ELSE LET alert == BuildAlert(EarliestResult(shortage_results, Head(order)))
             rest == BuildAlerts(shortage_results, Tail(order), days)
         IN  IF AlertEmitted(alert, days) THEN <<alert>> \o rest ELSE rest

\* MRPEngine.get_shortages, given the order in which the query returned the products
GetShortages(days, order) ==
    SortByOrderByDate(BuildAlerts(ShortageResults(days), order, days))

-----------------------------------------------------------------------------
(* The database the handlers run against *)

ProductRow(code, type, reorder_point, lead_time_days) ==
    [code |-> code, type |-> type, is_active |-> TRUE,
     reorder_point |-> reorder_point, reorder_qty |-> 100,
     lead_time_days |-> lead_time_days, safety_stock |-> 0,
     order_multiple |-> 30, minimum_order_qty |-> 50]

\* products in id order: two finished goods, a sub-assembly, a purchased component
Catalogue ==
    <<ProductRow("FG1", "finished_good", 0, 0),
      ProductRow("FG2", "finished_good", 0, 0),
      ProductRow("SA", "sub_assembly", 0, 0),
      ProductRow("X", "component", 8, 1)>>

Id(code) == CHOOSE p \in DOMAIN Catalogue : Catalogue[p].code = code

BOMLine(parent, component, quantity_per) ==
    [parent_product_id |-> Id(parent), component_product_id |-> Id(component),
     quantity_per |-> quantity_per]

\* the BOM as first entered: both goods use X directly, the sub-assembly takes two X
InitialBom ==
    {BOMLine("FG1", "X", 1), BOMLine("FG2", "X", 1), BOMLine("SA", "X", 2)}

\* the BOMs posted to save_bom: <<parent, lines>>
SaveBomInputs ==
    {<<Id("FG2"), {BOMLine("FG2", "X", 1)}>>,
     <<Id("FG2"), {BOMLine("FG2", "SA", 2)}>>,
     <<Id("SA"), {BOMLine("SA", "X", 2)}>>,
     <<Id("SA"), {BOMLine("SA", "SA", 2)}>>}

\* the forecasts posted to save_demand: <<product, quantity>>, for the dates below
SaveDemandInputs == {<<Id("FG1"), 5>>, <<Id("FG2"), 7>>}
DemandDates == {0, 1}

\* the adjustments posted to adjust_inventory: <<product, quantity_change>>
AdjustInputs == {<<Id("X"), 10>>}

\* the orders posted to create_purchase_order: <<product, expected_date, quantity>>
PurchaseInputs == {<<Id("X"), 1, 5>>}

\* the fields a call can return; a handler fills in its own
NoResult == [shortages |-> {}, products_processed |-> 0, components_analyzed |-> 0,
             alerts |-> <<>>, requirements |-> EmptyDict, value |-> 0,
             unsorted |-> <<>>, components |-> <<>>]

Response(op, args, raised, result) ==
    [op |-> op, args |-> args, raised |-> raised, result |-> result]

\* no calculate_mrp run is between its two commits
Idle == [at |-> "idle", days |-> 0, replaced |-> {}]

Init ==
    /\ products = Catalogue
    /\ bom_lines = InitialBom
    /\ daily_demand = {}
    /\ inventory = EmptyDict
    /\ purchase_orders = {}
    /\ mrp_results = {}
    /\ today = 0
    /\ pc = Idle
    /\ weekly_shipments = {}
    /\ response = Response("startup", <<>>, FALSE, NoResult)

-----------------------------------------------------------------------------
(* CRUD handlers of main.py *)

\* POST /api/products/{product_id}/bom : replaces the parent's lines
save_bom(product_id, components) ==
    /\ product_id \in DOMAIN products
    /\ bom_lines' = {l \in bom_lines : l.parent_product_id # product_id} \cup components
    /\ response' = Response("save_bom", <<>>, FALSE, NoResult)
    /\ UNCHANGED <<products, daily_demand, inventory, purchase_orders, mrp_results,
                   today, pc, weekly_shipments>>

\* POST /api/demand : replaces the rows of the posted dates
save_demand(product_id, demand_date, quantity) ==
    /\ daily_demand' =
          {r \in daily_demand : ~(r.product_id = product_id /\ r.demand_date = demand_date)}
          \cup {[product_id |-> product_id, demand_date |-> demand_date,
                 quantity |-> quantity]}
    /\ response' = Response("save_demand", <<>>, FALSE, NoResult)
    /\ UNCHANGED <<products, bom_lines, inventory, purchase_orders, mrp_results,
                   today, pc, weekly_shipments>>

\* POST /api/inventory/adjust : creates the row at 0 when missing, then adds the change
adjust_inventory(product_id, quantity_change) ==
    /\ Get(inventory, product_id) + quantity_change <= MaxOnHand
    /\ Get(inventory, product_id) + quantity_change >= -MaxOnHand
    /\ inventory' = [p \in DOMAIN inventory \cup {product_id} |->
                         IF p = product_id
                         THEN Get(inventory, product_id) + quantity_change
                         ELSE inventory[p]]
    /\ response' = Response("adjust_inventory", <<>>, FALSE, NoResult)
    /\ UNCHANGED <<products, bom_lines, daily_demand, purchase_orders, mrp_results,
                   today, pc, weekly_shipments>>

\* POST /api/purchase-orders : a new pending order, unless the number is taken
create_purchase_order(po_number, product_id, expected_date, quantity) ==
    /\ \A po \in purchase_orders : po.po_number # po_number
    /\ product_id \in DOMAIN products
    /\ purchase_orders' = purchase_orders \cup
          {[po_number |-> po_number, product_id |-> product_id,
            expected_date |-> expected_date, quantity |-> quantity,
            status |-> "pending", received_quantity |-> None]}
    /\ response' = Response("create_purchase_order", <<>>, FALSE, NoResult)
    /\ UNCHANGED <<products, bom_lines, daily_demand, inventory, mrp_results,
                   today, pc, weekly_shipments>>

\* the order with this number; the handlers below look it up by id
OrderOf(po_number) == CHOOSE po \in purchase_orders : po.po_number = po_number

\* the table with one order replaced
WithOrder(po_number, db_po) ==
    {po \in purchase_orders : po.po_number # po_number} \cup {db_po}

\* a call that ended in an HTTPException: nothing is committed
Rejected(op, args) ==
    /\ response' = Response(op, args, TRUE, NoResult)
    /\ UNCHANGED <<products, bom_lines, daily_demand, inventory, purchase_orders,
                   mrp_results, today, pc, weekly_shipments>>

\* AlreadyReceived with the check lost
AlreadyReceived_unchecked(db_po) == FALSE

\* if db_po.status == 'received': raise HTTPException(400)
AlreadyReceived(db_po) == db_po.status = "received"

\* POST /api/purchase-orders/{po_id}/receive : marks the order received and adds
\* the received quantity to on_hand, creating the inventory row when missing
receive_purchase_order(po_number, received_quantity) ==
    LET args == <<po_number, received_quantity>>
    IN  IF \A po \in purchase_orders : po.po_number # po_number
        THEN Rejected("receive_purchase_order", args)
        ELSE LET db_po == OrderOf(po_number)
                 new_on_hand == Get(inventory, db_po.product_id) + received_quantity
             IN  IF AlreadyReceived(db_po)
                 THEN Rejected("receive_purchase_order", args)
                 ELSE /\ new_on_hand <= MaxOnHand
                      /\ purchase_orders' = WithOrder(po_number,
                            [db_po EXCEPT !.status = "received",
                                          !.received_quantity = Some(received_quantity)])
                      /\ inventory' = [p \in DOMAIN inventory \cup {db_po.product_id} |->
                                           IF p = db_po.product_id THEN new_on_hand
                                           ELSE inventory[p]]
                      /\ response' = Response("receive_purchase_order", args, FALSE,
                                               [NoResult EXCEPT !.value = new_on_hand])
                      /\ UNCHANGED <<products, bom_lines, daily_demand, mrp_results,
                                     today, pc, weekly_shipments>>

\* received_qty = float(db_po.received_quantity or 0)
ReceivedQty(db_po) ==
    IF db_po.received_quantity = None THEN 0 ELSE db_po.received_quantity[1]

\* POST /api/purchase-orders/{po_id}/undo-receipt : takes the received quantity
\* back out of on_hand and returns the order to pending, unless the order is not
\* received, nothing was received, or on_hand would become negative
undo_purchase_order_receipt(po_number) ==
    LET args == <<po_number>>
    IN  IF \A po \in purchase_orders : po.po_number # po_number
        THEN Rejected("undo_purchase_order_receipt", args)
        ELSE LET db_po == OrderOf(po_number)
                 received_qty == ReceivedQty(db_po)
                 new_on_hand == Get(inventory, db_po.product_id) - received_qty
             IN  IF \/ db_po.status # "received"
                    \/ received_qty <= 0
                    \/ db_po.product_id \notin DOMAIN inventory
                    \/ new_on_hand < 0
                 THEN Rejected("undo_purchase_order_receipt", args)
                 ELSE /\ inventory' = [inventory EXCEPT ![db_po.product_id] = new_on_hand]
                      /\ purchase_orders' = WithOrder(po_number,
                            [db_po EXCEPT !.status = "pending",
                                          !.received_quantity = None])
                      /\ response' = Response("undo_purchase_order_receipt", args, FALSE,
                                               [NoResult EXCEPT !.value = new_on_hand])
                      /\ UNCHANGED <<products, bom_lines, daily_demand, mrp_results,
                                     today, pc, weekly_shipments>>

-----------------------------------------------------------------------------
(* MRP handlers *)

\* ClearedResults with the delete lost
ClearedResults_keeps_rows(table) == table

\* self.db.query(models.MRPResult).delete(): what is left of the table
ClearedResults(table) == {}

\* POST /api/mrp/calculate : MRPEngine.calculate_mrp.  The delete is committed
\* before anything is computed; a raise after it leaves the later rows uncommitted.
calculate_mrp(days) ==
    /\ LET cleared == ClearedResults(mrp_results)
           total == ProcessFinishedGoods(FinishedGoods, days, EmptyDict)
           rows == ProjectionRows(total.component_requirements, days)
       IN  IF total.raised
           THEN /\ mrp_results' = cleared
                /\ response' = Response("calculate_mrp", <<days>>, TRUE, NoResult)
           ELSE /\ mrp_results' = cleared \cup rows
                /\ response' = Response("calculate_mrp", <<days>>, FALSE,
                      [NoResult EXCEPT
                          !.shortages = RunShortages(rows),
                          !.products_processed = Cardinality(FinishedGoods),
                          !.components_analyzed =
                              Cardinality(DOMAIN total.component_requirements)])
    /\ UNCHANGED <<products, bom_lines, daily_demand, inventory, purchase_orders,
                   today, pc, weekly_shipments>>

\* GET /api/mrp/shortages : reads the committed table.  `unsorted` is the list
\* `shortages` as built, before the sort in place.
get_shortages(days) ==
    /\ \E order \in Orderings({r.product_id : r \in ShortageResults(days)}) :
          response' = Response("get_shortages", <<days>>, FALSE,
                               [NoResult EXCEPT
                                   !.alerts = GetShortages(days, order),
                                   !.unsorted = BuildAlerts(ShortageResults(days),
                                                            order, days)])
    /\ UNCHANGED <<products, bom_lines, daily_demand, inventory, purchase_orders,
                   mrp_results, today, pc, weekly_shipments>>

Next ==
    \/ \E b \in SaveBomInputs : save_bom(b[1], b[2])
    \/ \E d \in SaveDemandInputs, demand_date \in DemandDates :
          save_demand(d[1], demand_date, d[2])
    \/ \E a \in AdjustInputs : adjust_inventory(a[1], a[2])
    \/ \E po_number \in 1..MaxPOs, p \in PurchaseInputs :
          create_purchase_order(po_number, p[1], p[2], p[3])
    \/ \E days \in 1..MaxDays : calculate_mrp(days)
    \/ \E days \in 1..MaxDays : get_shortages(days)

Spec == Init /\ [][Next]_vars

-----------------------------------------------------------------------------
(* The BOM resolver on its own: BOMs of every shape, exploded directly *)

\* products in id order: a root, MaxChain sub-assemblies, two leaves
ExplodeCatalogue ==
    [i \in 1..(MaxChain + 3) |->
        IF i = 1 THEN ProductRow(<<"R", 0>>, "finished_good", 0, 0)
        ELSE IF i <= MaxChain + 1 THEN ProductRow(<<"S", i - 1>>, "sub_assembly", 0, 0)
        ELSE IF i = MaxChain + 2 THEN ProductRow(<<"L", 1>>, "component", 0, 0)
        ELSE ProductRow(<<"L", 2>>, "raw_material", 0, 0)]

Root == CHOOSE p \in DOMAIN ExplodeCatalogue : ExplodeCatalogue[p].code = <<"R", 0>>
Sub(i) == CHOOSE p \in DOMAIN ExplodeCatalogue : ExplodeCatalogue[p].code = <<"S", i>>
Leaf(i) == CHOOSE p \in DOMAIN ExplodeCatalogue : ExplodeCatalogue[p].code = <<"L", i>>

Edge(parent, component, quantity_per) ==
    [parent_product_id |-> parent, component_product_id |-> component,
     quantity_per |-> quantity_per]

\* root -> S1 -> ... -> Sn, each at quantity_per, and the last node takes three L1
Chain(n, quantity_per) ==
    {Edge(IF i = 0 THEN Root ELSE Sub(i), Sub(i + 1), quantity_per) : i \in 0..(n - 1)}
    \cup {Edge(IF n = 0 THEN Root ELSE Sub(n), Leaf(1), 3)}

\* the lines a shallow BOM is picked from: shared leaves, nested and cyclic sub-assemblies
ShallowEdges ==
    {Edge(Root, Leaf(1), 1), Edge(Root, Leaf(2), 2),
     Edge(Root, Sub(1), 2), Edge(Root, Sub(2), 3),
     Edge(Sub(1), Leaf(1), 3), Edge(Sub(2), Leaf(1), 5), Edge(Sub(2), Leaf(2), 1),
     Edge(Sub(1), Sub(2), 1), Edge(Sub(2), Sub(1), 1)}

ExplodeBoms ==
    {Chain(n, quantity_per) : n \in 0..MaxChain, quantity_per \in {1, 2}}
    \cup SUBSET ShallowEdges

InitExplode ==
    /\ products = ExplodeCatalogue
    /\ bom_lines \in ExplodeBoms
    /\ daily_demand = {}
    /\ inventory = EmptyDict
    /\ purchase_orders = {}
    /\ mrp_results = {}
    /\ today = 0
    /\ pc = Idle
    /\ weekly_shipments = {}
    /\ response = Response("startup", <<>>, FALSE, NoResult)

\* a direct call of MRPEngine.explode_bom_recursive(product_id, demand_qty)
explode(product_id, demand_qty) ==
    /\ LET result == explode_bom_recursive(product_id, demand_qty, 0)
       IN  response' = Response("explode_bom_recursive", <<product_id, demand_qty>>,
                                result.raised,
                                [NoResult EXCEPT !.requirements = result.requirements])
    /\ UNCHANGED <<products, bom_lines, daily_demand, inventory, purchase_orders,
                   mrp_results, today, pc, weekly_shipments>>

NextExplode ==
    \E product_id \in {Root, Sub(1)}, demand_qty \in 1..MaxDemandQty :
        explode(product_id, demand_qty)

SpecExplode == InitExplode /\ [][NextExplode]_vars

-----------------------------------------------------------------------------
(* The BOM resolver call by call: the frames of explode_bom_recursive *)

\* the frame of a call that has just been entered
Frame(product_id, demand_qty, level) ==
    [product_id |-> product_id, demand_qty |-> demand_qty, level |-> level,
     lines |-> {l \in bom_lines : l.parent_product_id = product_id},
     requirements |-> EmptyDict]

\* a call of explode_bom_recursive is running: its frames, the innermost last,
\* and the arguments of the outermost call
Exploding(stack, args) == [at |-> "exploding", stack |-> stack, args |-> args]

\* MRPEngine.explode_bom_recursive(product_id, demand_qty) is called
call_explode(product_id, demand_qty) ==
    /\ pc = Idle
    /\ pc' = Exploding(<<Frame(product_id, demand_qty, 0)>>, <<product_id, demand_qty>>)
    /\ UNCHANGED <<products, bom_lines, daily_demand, inventory, purchase_orders,
                   mrp_results, today, weekly_shipments, response>>

\* the exception leaves every frame; `value` keeps the level that raised
RaiseFrom(level) ==
    /\ response' = Response("explode_bom_recursive", pc.args, TRUE,
                            [NoResult EXCEPT !.value = level])
    /\ pc' = Idle

\* `return requirements`: to the caller, or into the loop of the frame below
ReturnFrom(stack) ==
    LET top == stack[Len(stack)]
    IN  IF Len(stack) = 1
        THEN /\ response' = Response("explode_bom_recursive", pc.args, FALSE,
                                     [NoResult EXCEPT !.requirements = top.requirements])
             /\ pc' = Idle
        ELSE LET below == stack[Len(stack) - 1]
                 merged == MergeInto(below.requirements, top.requirements,
                                     DOMAIN top.requirements)
             IN  /\ pc' = Exploding(
                           [SubSeq(stack, 1, Len(stack) - 1)
                               EXCEPT ![Len(stack) - 1].requirements = merged],
                           pc.args)
                 /\ response' = response

\* one pass of `for line in bom_lines`; as in ExplodeLines the lines are taken
\* in one order, the sums and the levels being the same in every order
VisitLine(stack, line) ==
    LET top == stack[Len(stack)]
        required_qty == RequiredQty(top.demand_qty, line)
        rest == [stack EXCEPT ![Len(stack)].lines = top.lines \ {line}]
    IN  IF NoComponentRecord(line) THEN RaiseFrom(top.level)
        ELSE IF products[line.component_product_id].type = "sub_assembly"
        THEN /\ pc' = Exploding(Append(rest, Frame(line.component_product_id,
                                                   required_qty, top.level + 1)),
                                pc.args)
             /\ response' = response
        ELSE /\ pc' = Exploding(
                      [rest EXCEPT ![Len(stack)].requirements =
                          AddTo(top.requirements, LeafKey(line), required_qty)],
                      pc.args)
             /\ response' = response

\* the next step of the innermost call
explode_step ==
    /\ pc.at = "exploding"
    /\ LET top == pc.stack[Len(pc.stack)]
       IN  IF DepthExceeded(top.level) THEN RaiseFrom(top.level)
           ELSE IF top.lines = {} THEN ReturnFrom(pc.stack)
           ELSE VisitLine(pc.stack, CHOOSE line \in top.lines : TRUE)
    /\ UNCHANGED <<products, bom_lines, daily_demand, inventory, purchase_orders,
                   mrp_results, today, weekly_shipments>>

NextRecursion ==
    \/ \E product_id \in {Root, Sub(1)} : call_explode(product_id, 1)
    \/ explode_step

\* a call that was entered keeps running: the interpreter does not stop in it
SpecRecursion == InitExplode /\ [][NextRecursion]_vars /\ WF_vars(explode_step)

-----------------------------------------------------------------------------
(* Planning over BOM lines whose component has no Product row *)

\* an id no Product row has
UnknownProduct == Len(Catalogue) + 1

\* the BOMs posted to save_bom here: save_bom does not look the components up
OrphanBomInputs ==
    {<<Id("FG2"), {BOMLine("FG2", "X", 1)}>>,
     <<Id("FG2"), {[parent_product_id |-> Id("FG2"),
                    component_product_id |-> UnknownProduct, quantity_per |-> 1]}>>,
     <<Id("FG2"), {BOMLine("FG2", "SA", 2)}>>,
     <<Id("SA"), {BOMLine("SA", "X", 2),
                  [parent_product_id |-> Id("SA"),
                   component_product_id |-> UnknownProduct, quantity_per |-> 1]}>>,
     <<Id("SA"), {BOMLine("SA", "X", 2)}>>}

NextOrphan ==
    \/ \E b \in OrphanBomInputs : save_bom(b[1], b[2])
    \/ \E d \in SaveDemandInputs, demand_date \in DemandDates :
          save_demand(d[1], demand_date, d[2])
    \/ \E days \in 1..MaxDays : calculate_mrp(days)

SpecOrphan == Init /\ [][NextOrphan]_vars

-----------------------------------------------------------------------------
(* Netting from a stock of 0.30 against daily demands of 0.10 *)

\* the products of Catalogue, X with a reorder point of 0.10
NettingCatalogue == [Catalogue EXCEPT ![Id("X")].reorder_point = 10]

\* the forecasts posted to save_demand here: <<product, quantity>>
NettingDemandInputs == {<<Id("FG1"), 10>>, <<Id("FG2"), 10>>}

InitNetting ==
    /\ products = NettingCatalogue
    /\ bom_lines = InitialBom
    /\ daily_demand = {}
    /\ inventory = [p \in {Id("X")} |-> 30]
    /\ purchase_orders = {}
    /\ mrp_results = {}
    /\ today = 0
    /\ pc = Idle
    /\ weekly_shipments = {}
    /\ response = Response("startup", <<>>, FALSE, NoResult)

NextNetting ==
    \/ \E d \in NettingDemandInputs, demand_date \in 0..MaxDays :
          save_demand(d[1], demand_date, d[2])
    \/ \E days \in 1..MaxDays : calculate_mrp(days)
    \/ \E days \in 1..MaxDays : get_shortages(days)

SpecNetting == InitNetting /\ [][NextNetting]_vars

-----------------------------------------------------------------------------
(* The lot-sizing function on its own, over quantities given directly *)

\* quantities, order multiples and minimum order quantities, in hundredths
LotQuantities == {-100, 0, 50, 840, 1050, 2000, 10000}
LotSizes == {-3000, 0, 100, 120, 3000}
LotMinimums == {0, 5000, 6000}

\* a direct call of MRPEngine.round_up_to_lot_size(qty, lot_size, minimum)
round_up(qty, lot_size, minimum) ==
    /\ response' = Response("round_up_to_lot_size", <<qty, lot_size, minimum>>, FALSE,
                            [NoResult EXCEPT
                                !.value = round_up_to_lot_size(qty, lot_size, minimum)])
    /\ UNCHANGED <<products, bom_lines, daily_demand, inventory, purchase_orders,
                   mrp_results, today, pc, weekly_shipments>>

\* recommended_qty as get_shortages computes it for a product with these fields
recommend(reorder_qty, order_multiple, minimum_order_qty) ==
    /\ response' = Response("recommended_order_qty",
                            <<reorder_qty, order_multiple, minimum_order_qty>>, FALSE,
                            [NoResult EXCEPT
                                !.value = RecommendedQty(
                                    [reorder_qty |-> reorder_qty,
                                     order_multiple |-> order_multiple,
                                     minimum_order_qty |-> minimum_order_qty])])
    /\ UNCHANGED <<products, bom_lines, daily_demand, inventory, purchase_orders,
                   mrp_results, today, pc, weekly_shipments>>

NextLot ==
    \/ \E qty \in LotQuantities, lot_size \in LotSizes, minimum \in LotMinimums :
          round_up(qty, lot_size, minimum)
    \/ \E qty \in LotQuantities, lot_size \in LotSizes, minimum \in LotMinimums :
          recommend(qty, lot_size, minimum)

SpecLot == Init /\ [][NextLot]_vars

-----------------------------------------------------------------------------
(* The advisor over several purchased components *)

\* products in id order: two finished goods and three components; lead_time_days
\* is any int (schemas.py states no bound), here 1, 0 and -1
AdvisorCatalogue ==
    <<ProductRow("FG1", "finished_good", 0, 0),
      ProductRow("FG2", "finished_good", 0, 0),
      ProductRow("X", "component", 0, 1),
      ProductRow("Y", "component", 8, 0),
      ProductRow("Z", "component", 0, -1)>>

AdvisorId(code) == CHOOSE p \in DOMAIN AdvisorCatalogue : AdvisorCatalogue[p].code = code

\* FG1 takes one X and one Y, FG2 takes one Z
AdvisorBom ==
    {[parent_product_id |-> AdvisorId(l[1]), component_product_id |-> AdvisorId(l[2]),
      quantity_per |-> 1] : l \in {<<"FG1", "X">>, <<"FG1", "Y">>, <<"FG2", "Z">>}}

InitAdvisor ==
    /\ products = AdvisorCatalogue
    /\ bom_lines = AdvisorBom
    /\ daily_demand = {}
    /\ inventory = EmptyDict
    /\ purchase_orders = {}
    /\ mrp_results = {}
    /\ today = 0
    /\ pc = Idle
    /\ weekly_shipments = {}
    /\ response = Response("startup", <<>>, FALSE, NoResult)

NextAdvisor ==
    \/ \E d \in SaveDemandInputs, demand_date \in DemandDates :
          save_demand(d[1], demand_date, d[2])
    \/ \E days \in 1..MaxDays : calculate_mrp(days)
    \/ \E days \in 1..MaxDays : get_shortages(days)

SpecAdvisor == InitAdvisor /\ [][NextAdvisor]_vars

-----------------------------------------------------------------------------
(* Dynamic reorder points: get_dynamic_reorder_points and its callers *)

\* for i in range(6): the report looks at this many weeks
WeeksAhead == 6

\* today - timedelta(days=today.weekday()): day 0 is a Monday
CurrentWeekStart == today - (today % 7)

WeekStarts == {CurrentWeekStart + 7 * i : i \in 0..(WeeksAhead - 1)}

\* the rows of the query: week_start_date.in_(week_starts)
AllShipments == {row \in weekly_shipments : row.week_start_date \in WeekStarts}

\* shipments_by_product[product_id]: the goals of a product, in the order the
\* query returned its rows; the week of a goal is not kept
ShipmentsByProduct(shipment_order, product_id) ==
    LET OfProduct(row) == row.product_id = product_id
        rows == SelectSeq(shipment_order, OfProduct)
    IN  [i \in DOMAIN rows |-> rows[i].goal]

\* list.index(x), counted from 1
IndexOf(list, x) == CHOOSE i \in DOMAIN list : list[i] = x /\ \A j \in 1..(i - 1) : list[j] # x

RECURSIVE AddWeeklyGoals(_, _, _, _)
\* for weekly_goal in shipments_by_product[parent]: after the first n goals
AddWeeklyGoals(total_weekly_usage, goals, n, quantity_per) ==
    IF n = 0 THEN total_weekly_usage
    ELSE LET before == AddWeeklyGoals(total_weekly_usage, goals, n - 1, quantity_per)
             extended == IF Len(before) < Len(goals)
                         THEN before \o [i \in 1..(Len(goals) - Len(before)) |-> 0]
                         ELSE before
             component_weekly_usage == goals[n] * quantity_per
             week_index == IndexOf(goals, goals[n])
         IN  IF week_index <= Len(extended)
             THEN [extended EXCEPT ![week_index] = @ + component_weekly_usage]
             ELSE Append(extended, component_weekly_usage)

RECURSIVE AddUsages(_, _, _)
\* for usage in component_usage[component.id]: the sums do not depend on the
\* order of the BOM lines, so any is taken
AddUsages(total_weekly_usage, usages_left, shipment_order) ==
    IF usages_left = {} THEN total_weekly_usage
    ELSE LET usage == CHOOSE l \in usages_left : TRUE
             goals == ShipmentsByProduct(shipment_order, usage.parent_product_id)
         IN  AddUsages(AddWeeklyGoals(total_weekly_usage, goals, Len(goals),
                                      usage.quantity_per),
                       usages_left \ {usage}, shipment_order)

RECURSIVE SumSeq(_)
SumSeq(seq) == IF seq = <<>> THEN 0 ELSE Head(seq) + SumSeq(Tail(seq))

\* average_weekly_usage before rounding, as the fraction num / den
AverageWeeklyUsage(total_weekly_usage) ==
    IF total_weekly_usage # <<>>
    THEN [num |-> SumSeq(total_weekly_usage),
          den |-> OrDefault(Cardinality({i \in DOMAIN total_weekly_usage :
                                            total_weekly_usage[i] > 0}), 1)]
    ELSE [num |-> 0, den |-> 1]

\* round(num / den, 2) in hundredths, for num >= 0; the goals entered are whole
\* units, so no quotient lies halfway between two hundredths
Round2(num, den) == (2 * num + den) \div (2 * den)

\* component_usage[component.id]: the BOM lines that use the component
ComponentUsage(component_id) ==
    {l \in bom_lines : l.component_product_id = component_id}

\* the entry of the report for one component
DynamicEntry(component_id, shipment_order) ==
    LET component == products[component_id]
        safety_stock == OrDefault(component.safety_stock, 0)
        average == AverageWeeklyUsage(
                       AddUsages(<<>>, ComponentUsage(component_id), shipment_order))
    IN  IF ComponentUsage(component_id) = {}
        THEN [product_id |-> component_id,
              current_reorder_point |-> OrDefault(component.reorder_point, 0),
              dynamic_reorder_point |-> 0,
              average_weekly_usage |-> 0,
              six_week_usage |-> 0,
              safety_stock |-> safety_stock]
        ELSE [product_id |-> component_id,
              current_reorder_point |-> OrDefault(component.reorder_point, 0),
              dynamic_reorder_point |->
                  Round2(average.num * WeeksAhead + safety_stock * average.den,
                         average.den),
              average_weekly_usage |-> Round2(average.num, average.den),
              six_week_usage |-> Round2(average.num * WeeksAhead, average.den),
              safety_stock |-> safety_stock]

\* result.sort(key=dynamic_reorder_point, reverse=True): an entry goes after
\* those that are not smaller
ReportInsert(sorted, entry) ==
    LET k == Cardinality({i \in 1..Len(sorted) :
                 sorted[i].dynamic_reorder_point >= entry.dynamic_reorder_point})
    IN  SubSeq(sorted, 1, k) \o <<entry>> \o SubSeq(sorted, k + 1, Len(sorted))

RECURSIVE SortReport(_)
SortReport(result) ==
    IF result = <<>> THEN <<>>
    ELSE ReportInsert(SortReport(SubSeq(result, 1, Len(result) - 1)),
                      result[Len(result)])

\* all_components: the active products of type 'component'
AllComponents ==
    {p \in DOMAIN products : products[p].type = "component" /\ products[p].is_active}

\* the 'components' list get_dynamic_reorder_points returns, given the orders in
\* which its queries returned the shipments and the components
DynamicReorderPoints(shipment_order, component_order) ==
    SortReport([i \in DOMAIN component_order |->
                   DynamicEntry(component_order[i], shipment_order)])

\* ApplyReorderPoints with the entries of unused components, reported at 0, left out
ApplyReorderPoints_skips_unused(table, report) ==
    [p \in DOMAIN table |->
        IF \E i \in DOMAIN report : /\ report[i].product_id = p
                                    /\ report[i].dynamic_reorder_point > 0
        THEN [table[p] EXCEPT !.reorder_point =
                 report[CHOOSE i \in DOMAIN report :
                            report[i].product_id = p].dynamic_reorder_point]
        ELSE table[p]]

\* product.reorder_point = Decimal(str(dynamic_reorder_point)), for every entry
ApplyReorderPoints(table, report) ==
    [p \in DOMAIN table |->
        IF \E i \in DOMAIN report : report[i].product_id = p
        THEN [table[p] EXCEPT !.reorder_point =
                 report[CHOOSE i \in DOMAIN report :
                            report[i].product_id = p].dynamic_reorder_point]
        ELSE table[p]]

\* ProductsAfterReport with the computed values written back by the report itself
ProductsAfterReport_applied(table, report) == ApplyReorderPoints(table, report)

\* the products table after get_dynamic_reorder_points: it adds, changes and
\* commits nothing
ProductsAfterReport(table, report) == table

\* products in id order: those of Catalogue, the components with a safety stock
\* of 2.00, and a component W that no BOM uses
ReorderCatalogue ==
    [p \in 1..(Len(Catalogue) + 1) |->
        IF p > Len(Catalogue)
        THEN [ProductRow("W", "component", 800, 0) EXCEPT !.safety_stock = 200]
        ELSE IF Catalogue[p].type = "component"
             THEN [Catalogue[p] EXCEPT !.safety_stock = 200]
             ELSE Catalogue[p]]

\* the goals posted to save_weekly_shipments: <<product, week_start_date, goal>>;
\* day 42 is the Monday after the six weeks of the report
ShipmentInputs ==
    {<<Id("FG1"), 0, 500>>, <<Id("FG1"), 7, 500>>, <<Id("FG1"), 7, 1000>>,
     <<Id("FG1"), 14, 2000>>, <<Id("FG2"), 7, 700>>, <<Id("FG2"), 42, 700>>}

InitReorder ==
    /\ products = ReorderCatalogue
    /\ bom_lines = InitialBom
    /\ daily_demand = {}
    /\ inventory = EmptyDict
    /\ purchase_orders = {}
    /\ mrp_results = {}
    /\ today = 0
    /\ pc = Idle
    /\ weekly_shipments = {}
    /\ response = Response("startup", <<>>, FALSE, NoResult)

\* POST /api/weekly-shipments : sets the goal of each posted week, adding the row
\* when the product has none for that week
save_weekly_shipments(product_id, weeks) ==
    /\ weekly_shipments' =
          {row \in weekly_shipments :
              ~(row.product_id = product_id
                /\ \E week \in weeks : week.week_start_date = row.week_start_date)}
          \cup {[product_id |-> product_id, week_start_date |-> week.week_start_date,
                 goal |-> week.goal, shipped |-> 0] : week \in weeks}
    /\ response' = Response("save_weekly_shipments", <<>>, FALSE,
                            [NoResult EXCEPT !.value = Cardinality(weeks)])
    /\ UNCHANGED <<products, bom_lines, daily_demand, inventory, purchase_orders,
                   mrp_results, today, pc>>

\* GET /api/inventory/dynamic-reorder-points
get_dynamic_reorder_points ==
    /\ \E shipment_order \in Orderings(AllShipments),
          component_order \in Orderings(AllComponents) :
          LET report == DynamicReorderPoints(shipment_order, component_order)
          IN  /\ response' = Response("get_dynamic_reorder_points", <<>>, FALSE,
                                      [NoResult EXCEPT !.components = report])
              /\ products' = ProductsAfterReport(products, report)
    /\ UNCHANGED <<bom_lines, daily_demand, inventory, purchase_orders,
                   mrp_results, today, pc, weekly_shipments>>

\* POST /api/inventory/update-reorder-points : computes the report and writes each
\* entry's dynamic_reorder_point onto its product
update_reorder_points_from_dynamic ==
    /\ \E shipment_order \in Orderings(AllShipments),
          component_order \in Orderings(AllComponents) :
          LET report == DynamicReorderPoints(shipment_order, component_order)
          IN  /\ products' = ApplyReorderPoints(products, report)
              /\ response' = Response("update_reorder_points_from_dynamic", <<>>, FALSE,
                                      [NoResult EXCEPT !.value = Len(report)])
    /\ UNCHANGED <<bom_lines, daily_demand, inventory, purchase_orders,
                   mrp_results, today, pc, weekly_shipments>>

NextReorder ==
    \/ \E g \in ShipmentInputs :
          save_weekly_shipments(g[1], {[week_start_date |-> g[2], goal |-> g[3]]})
    \/ get_dynamic_reorder_points
    \/ update_reorder_points_from_dynamic

SpecReorder == InitReorder /\ [][NextReorder]_vars

-----------------------------------------------------------------------------
(* Planning with a stocked component that no BOM uses *)

\* the component W of ReorderCatalogue: on no BOM line, reorder point 8.00
UnusedComponent == Len(ReorderCatalogue)

\* the adjustments posted to adjust_inventory here: <<product, quantity_change>>
UnusedAdjustInputs == {<<UnusedComponent, 10>>, <<Id("X"), 10>>}

NextUnused ==
    \/ \E b \in SaveBomInputs : save_bom(b[1], b[2])
    \/ \E d \in SaveDemandInputs, demand_date \in DemandDates :
          save_demand(d[1], demand_date, d[2])
    \/ \E a \in UnusedAdjustInputs : adjust_inventory(a[1], a[2])
    \/ \E days \in 1..MaxDays : calculate_mrp(days)

SpecUnused == InitReorder /\ [][NextUnused]_vars

-----------------------------------------------------------------------------
(* Receiving purchase orders, and undoing a receipt *)

\* the stock the receiving starts from
InitialOnHand == [p \in {Id("X")} |-> 2]

\* the orders posted to create_purchase_order here: <<product, expected_date, quantity>>
ReceivingPurchaseInputs == {<<Id("X"), 1, 5>>, <<Id("SA"), 0, 5>>}

\* the numbers of the orders placed here
ReceivingOrders == 1..(MaxPOs + 1)

\* the quantities posted to receive_purchase_order
ReceivedQuantities == {0, 3, 5}

InitReceiving ==
    /\ products = Catalogue
    /\ bom_lines = InitialBom
    /\ daily_demand = {}
    /\ inventory = InitialOnHand
    /\ purchase_orders = {}
    /\ mrp_results = {}
    /\ today = 0
    /\ pc = Idle
    /\ weekly_shipments = {}
    /\ response = Response("startup", <<>>, FALSE, NoResult)

NextReceiving ==
    \/ \E po_number \in ReceivingOrders, p \in ReceivingPurchaseInputs :
          create_purchase_order(po_number, p[1], p[2], p[3])
    \/ \E po_number \in ReceivingOrders, q \in ReceivedQuantities :
          receive_purchase_order(po_number, q)
    \/ \E po_number \in ReceivingOrders : undo_purchase_order_receipt(po_number)

SpecReceiving == InitReceiving /\ [][NextReceiving]_vars

\* the adjustments posted to adjust_inventory here: <<product, quantity_change>>
StockAdjustInputs == {<<Id("X"), 4>>, <<Id("X"), -4>>}

NextStock ==
    \/ NextReceiving
    \/ \E a \in StockAdjustInputs : adjust_inventory(a[1], a[2])

SpecStock == InitReceiving /\ [][NextStock]_vars

-----------------------------------------------------------------------------
(* The daily build analysis: get_daily_build_analysis *)

\* PUT /api/purchase-orders/{po_id} : sets the posted fields of the order, and
\* nothing else
update_purchase_order(po_number, update_data) ==
    IF \A po \in purchase_orders : po.po_number # po_number
    THEN Rejected("update_purchase_order", <<po_number>>)
    ELSE LET db_po == OrderOf(po_number)
         IN  /\ purchase_orders' = WithOrder(po_number,
                   [key \in DOMAIN db_po |->
                       IF key \in DOMAIN update_data THEN update_data[key]
                       ELSE db_po[key]])
             /\ response' = Response("update_purchase_order", <<po_number>>, FALSE,
                                      NoResult)
             /\ UNCHANGED <<products, bom_lines, daily_demand, inventory, mrp_results,
                            today, pc, weekly_shipments>>

\* d.weekday(): day 0 is a Monday
Weekday(d) == d % 7

\* weekly_goals.get(week_start, 0), for the week of the day
WeeklyGoalOn(product_id, d) ==
    LET rows == {row \in weekly_shipments : /\ row.product_id = product_id
                                            /\ row.week_start_date = d - Weekday(d)}
    IN  IF rows = {} THEN 0 ELSE (CHOOSE row \in rows : TRUE).goal

\* daily_production_by_product[product_id][d]: a fifth of the weekly goal on
\* Monday to Friday; the goals entered are multiples of 0.05
DailyProduction(product_id, d) ==
    IF Weekday(d) < 5 THEN WeeklyGoalOn(product_id, d) \div 5 ELSE 0

\* total_consumption of a component on a day, over the BOM lines that use it
TotalConsumption(component_id, d) ==
    LET usages == {l \in bom_lines : l.component_product_id = component_id}
    IN  SumOver([usage \in usages |->
                    DailyProduction(usage.parent_product_id, d) * usage.quantity_per],
                usages)

\* PendingOrders without the status filter
PendingOrders_any_status(component_id) ==
    {po \in purchase_orders : po.product_id = component_id}

\* pending_pos: the orders of the component with status 'pending'
PendingOrders(component_id) ==
    {po \in purchase_orders : po.product_id = component_id /\ po.status = "pending"}

\* po_arrivals_by_date.get(d, 0): the quantities of the pending orders expected on d
PoArrivals(component_id, d) ==
    LET arriving == {po \in PendingOrders(component_id) : po.expected_date = d}
    IN  SumOver([po \in arriving |-> po.quantity], arriving)

RECURSIVE RunningInventory(_, _)
\* running_inventory after the first n dates
RunningInventory(component_id, n) ==
    IF n = 0 THEN Get(inventory, component_id)
    ELSE LET d == today + n - 1
         IN  RunningInventory(component_id, n - 1)
                - TotalConsumption(component_id, d) + PoArrivals(component_id, d)

\* one entry of daily_data
DailyEntry(component_id, n) ==
    LET d == today + n - 1
        incoming_po == PoArrivals(component_id, d)
    IN  [date |-> d,
         consumption |-> TotalConsumption(component_id, d),
         incoming_po |-> IF incoming_po > 0 THEN incoming_po ELSE 0,
         projected_inventory |-> RunningInventory(component_id, n)]

\* one entry of components_data
ComponentAnalysis(component_id, days) ==
    LET negative == {n \in 1..days : RunningInventory(component_id, n) < 0}
        first == CHOOSE n \in negative : \A m \in negative : n <= m
    IN  [component_id |-> component_id,
         current_stock |-> Get(inventory, component_id),
         run_out_date |-> IF negative = {} THEN None ELSE Some(today + first - 1),
         days_of_inventory |-> IF negative = {} THEN days ELSE first - 1,
         daily_data |-> [n \in 1..days |-> DailyEntry(component_id, n)],
         has_pending_po |-> PendingOrders(component_id) # {}]

\* components_data.sort(key=days_of_inventory): an entry goes after those that
\* are not larger
AnalysisInsert(sorted, entry) ==
    LET k == Cardinality({i \in 1..Len(sorted) :
                 sorted[i].days_of_inventory <= entry.days_of_inventory})
    IN  SubSeq(sorted, 1, k) \o <<entry>> \o SubSeq(sorted, k + 1, Len(sorted))

RECURSIVE SortAnalysis(_)
SortAnalysis(components_data) ==
    IF components_data = <<>> THEN <<>>
    ELSE AnalysisInsert(SortAnalysis(SubSeq(components_data, 1, Len(components_data) - 1)),
                        components_data[Len(components_data)])

\* the products of type 'component' that some BOM line uses; the others are skipped
AnalysedComponents ==
    {p \in DOMAIN products :
        /\ products[p].type = "component"
        /\ \E l \in bom_lines : l.component_product_id = p}

\* GET /api/demand/daily-build-analysis
get_daily_build_analysis(days) ==
    /\ \E component_order \in Orderings(AnalysedComponents) :
          response' = Response("get_daily_build_analysis", <<days>>, FALSE,
              [NoResult EXCEPT !.components =
                  SortAnalysis([i \in DOMAIN component_order |->
                                   ComponentAnalysis(component_order[i], days)])])
    /\ UNCHANGED <<products, bom_lines, daily_demand, inventory, purchase_orders,
                   mrp_results, today, pc, weekly_shipments>>

\* the day the analysis is asked for: the Friday of the first week
AnalysisDay == 4

\* the orders posted to create_purchase_order here: <<product, expected_date, quantity>>;
\* one is overdue, one arrives after every horizon, one is for a component no BOM uses
AnalysisPurchaseInputs ==
    {<<Id("X"), AnalysisDay - 1, 5>>, <<Id("X"), AnalysisDay, 5>>,
     <<Id("X"), AnalysisDay + 1, 3>>, <<Id("X"), AnalysisDay + MaxDays + 1, 5>>,
     <<UnusedComponent, AnalysisDay, 5>>}

\* the fields posted to update_purchase_order
UpdateInputs == {[status |-> "cancelled"], [status |-> "pending"]}

\* the goals posted to save_weekly_shipments here: <<product, week_start_date, goal>>
AnalysisShipmentInputs == {<<Id("FG1"), 0, 5>>}

InitAnalysis ==
    /\ products = ReorderCatalogue
    /\ bom_lines = InitialBom
    /\ daily_demand = {}
    /\ inventory = InitialOnHand
    /\ purchase_orders = {}
    /\ mrp_results = {}
    /\ today = AnalysisDay
    /\ pc = Idle
    /\ weekly_shipments = {}
    /\ response = Response("startup", <<>>, FALSE, NoResult)

NextAnalysis ==
    \/ \E po_number \in ReceivingOrders, p \in AnalysisPurchaseInputs :
          create_purchase_order(po_number, p[1], p[2], p[3])
    \/ \E po_number \in ReceivingOrders : receive_purchase_order(po_number, 5)
    \/ \E po_number \in ReceivingOrders, update_data \in UpdateInputs :
          update_purchase_order(po_number, update_data)
    \/ \E g \in AnalysisShipmentInputs :
          save_weekly_shipments(g[1], {[week_start_date |-> g[2], goal |-> g[3]]})
    \/ \E days \in 1..MaxDays : get_daily_build_analysis(days)

SpecAnalysis == InitAnalysis /\ [][NextAnalysis]_vars

-----------------------------------------------------------------------------
(* Planning with forecasts of zero and finished goods taken out of use *)

\* DELETE /api/products/{product_id} : a soft delete, the row stays
delete_product(product_id) ==
    IF product_id \notin DOMAIN products
    THEN Rejected("delete_product", <<product_id>>)
    ELSE /\ products' = [products EXCEPT ![product_id].is_active = FALSE]
         /\ response' = Response("delete_product", <<product_id>>, FALSE, NoResult)
         /\ UNCHANGED <<bom_lines, daily_demand, inventory, purchase_orders, mrp_results,
                        today, pc, weekly_shipments>>

\* the forecasts posted to save_demand here: <<product, quantity>>
ForecastInputs == SaveDemandInputs \cup {<<Id("FG1"), 0>>}

NextForecast ==
    \/ \E b \in SaveBomInputs : save_bom(b[1], b[2])
    \/ \E d \in ForecastInputs, demand_date \in DemandDates :
          save_demand(d[1], demand_date, d[2])
    \/ \E product_id \in FinishedGoods : delete_product(product_id)
    \/ \E days \in 1..MaxDays : calculate_mrp(days)

SpecForecast == Init /\ [][NextForecast]_vars

-----------------------------------------------------------------------------
(* Reorder point updates with components taken out of use *)

NextUpdate ==
    \/ NextReorder
    \/ \E product_id \in AllComponents : delete_product(product_id)

SpecUpdate == InitReorder /\ [][NextUpdate]_vars

-----------------------------------------------------------------------------
(* A planning run beside its readers: the two commits of calculate_mrp as two *)
(* steps, with the other requests served in between                          *)

\* calculate_mrp up to its first commit (mrp.py:109-111): the delete is visible.
\* pc keeps the horizon of the run and the rows the delete removed.
calculate_mrp_delete(days) ==
    /\ pc = Idle
    /\ mrp_results' = ClearedResults(mrp_results)
    /\ pc' = [at |-> "deleted", days |-> days, replaced |-> mrp_results]
    /\ UNCHANGED <<products, bom_lines, daily_demand, inventory, purchase_orders,
                   today, weekly_shipments, response>>

\* calculate_mrp from there to its return (mrp.py:113-203): the rows are added and
\* committed together, or the raise ends the call with nothing added.
calculate_mrp_rebuild ==
    /\ pc.at = "deleted"
    /\ LET days == pc.days
           total == ProcessFinishedGoods(FinishedGoods, days, EmptyDict)
           rows == ProjectionRows(total.component_requirements, days)
       IN  IF total.raised
           THEN /\ mrp_results' = mrp_results
                /\ response' = Response("calculate_mrp", <<days>>, TRUE, NoResult)
           ELSE /\ mrp_results' = mrp_results \cup rows
                /\ response' = Response("calculate_mrp", <<days>>, FALSE,
                      [NoResult EXCEPT
                          !.shortages = RunShortages(rows),
                          !.products_processed = Cardinality(FinishedGoods),
                          !.components_analyzed =
                              Cardinality(DOMAIN total.component_requirements)])
    /\ pc' = Idle
    /\ UNCHANGED <<products, bom_lines, daily_demand, inventory, purchase_orders,
                   today, weekly_shipments>>

NextConcurrent ==
    \/ \E d \in SaveDemandInputs, demand_date \in DemandDates :
          save_demand(d[1], demand_date, d[2])
    \/ \E b \in SaveBomInputs : save_bom(b[1], b[2])
    \/ \E days \in 1..MaxDays : calculate_mrp_delete(days)
    \/ calculate_mrp_rebuild
    \/ \E days \in 1..MaxDays : get_shortages(days)

SpecConcurrent == Init /\ [][NextConcurrent]_vars

-----------------------------------------------------------------------------
(* Properties of the planning run (Spec) *)

\* the last call was a calculate_mrp that returned
CompletedRun == response.op = "calculate_mrp" /\ ~response.raised

RowsOf(component_id) == {r \in mrp_results : r.product_id = component_id}

RowAt(component_id, result_date) ==
    CHOOSE r \in mrp_results : r.product_id = component_id /\ r.result_date = result_date

\* what one finished good requires of a leaf on a day: its demand of that day, exploded
ExplodedRequirement(product_id, component_id, day_offset) ==
    LET rows == {r \in daily_demand : /\ r.product_id = product_id
                                      /\ r.demand_date = today + day_offset}
        demand_qty == IF rows = {} THEN 0 ELSE (CHOOSE r \in rows : TRUE).quantity
    IN  IF demand_qty > 0
        THEN Get(explode_bom_recursive(product_id, demand_qty, 0).requirements, component_id)
        ELSE 0

\* the consolidated requirement of a leaf on a day: summed over the active finished goods
ConsolidatedRequirement(component_id, day_offset) ==
    SumOver([p \in FinishedGoods |-> ExplodedRequirement(p, component_id, day_offset)],
            FinishedGoods)

\* the quantity of the pending purchase orders of a component expected on a date
PendingReceipts(component_id, expected_date) ==
    LET pending == {po \in purchase_orders : /\ po.status = "pending"
                                             /\ po.product_id = component_id
                                             /\ po.expected_date = expected_date}
    IN  SumOver([po \in pending |-> po.quantity], pending)

\* the balance a row starts from: on_hand before day 0, else the previous day's row
PreviousBalance(r) ==
    IF r.result_date = today THEN Get(inventory, r.product_id)
    ELSE RowAt(r.product_id, r.result_date - 1).projected_onhand

\* C1: a calculate_mrp call that fails part-way leaves the committed MRPResult rows
\* exactly as they were before the call.
C1_FailedRunKeepsCommittedRows ==
    [][\A days \in 1..MaxDays :
          (calculate_mrp(days) /\ response'.raised) => mrp_results' = mrp_results]_vars

\* C2: after a run, every row's balance is the previous balance minus the day's
\* consolidated requirement plus the pending receipts expected that day.
C2_BalanceNetsRequirementAndReceipts ==
    CompletedRun =>
        \A r \in mrp_results :
            r.projected_onhand =
                PreviousBalance(r)
                - ConsolidatedRequirement(r.product_id, r.result_date - today)
                + PendingReceipts(r.product_id, r.result_date)

\* C3: after a run, at most one row of a component carries a shortage_date, and it
\* is the row of the earliest day with a negative balance.
C3_SingleShortageFlag ==
    CompletedRun =>
        \A component_id \in DOMAIN products :
            LET flagged == {r \in RowsOf(component_id) : r.shortage_date # None}
            IN  /\ Cardinality(flagged) <= 1
                /\ \A r \in flagged :
                      /\ r.projected_onhand < 0
                      /\ \A o \in RowsOf(component_id) :
                            o.projected_onhand < 0 => r.result_date <= o.result_date

\* C4: get_shortages(days) alerts a component only if its projected balance is
\* negative on some day within the look-ahead window.
C4_AlertOnlyWhenNegative ==
    response.op = "get_shortages" =>
        \A i \in DOMAIN response.result.alerts :
            \E r \in RowsOf(response.result.alerts[i].product_id) :
                /\ r.projected_onhand < 0
                /\ r.result_date <= today + response.args[1]

\* C5: get_shortages returns at most one alert per component; its shortage_date is
\* the earliest date with a negative balance and its order_by_date is that date
\* minus the lead time.
C5_AlertIsEarliestNegativeDay ==
    response.op = "get_shortages" =>
        LET alerts == response.result.alerts
        IN  /\ \A i, j \in DOMAIN alerts :
                  alerts[i].product_id = alerts[j].product_id => i = j
            /\ \A i \in DOMAIN alerts :
                  LET negative == {r \in RowsOf(alerts[i].product_id) :
                                      r.projected_onhand < 0}
                  IN  /\ \E r \in negative : r.result_date = alerts[i].shortage_date
                      /\ \A r \in negative : alerts[i].shortage_date <= r.result_date
                      /\ alerts[i].order_by_date =
                            alerts[i].shortage_date
                            - products[alerts[i].product_id].lead_time_days

\* the rows a run over the current inputs writes
RowsFromInputs(days) ==
    ProjectionRows(ProcessFinishedGoods(FinishedGoods, days, EmptyDict).component_requirements,
                   days)

\* C6: the rows left by a completed calculate_mrp are those the current inputs give,
\* whatever the table held before: no row of an earlier run survives.
C6_RowsDependOnlyOnInputs ==
    CompletedRun =>
        /\ mrp_results = RowsFromInputs(response.args[1])
        /\ \A r \in mrp_results :
              /\ r.result_date \in today..(today + response.args[1] - 1)
              /\ \E p \in FinishedGoods, d \in 0..(response.args[1] - 1) :
                    ExplodedRequirement(p, r.product_id, d) > 0

\* a run has replaced a table: rows for X of a one-day run, with both goods demanding
C6_Witness ==
    /\ CompletedRun
    /\ response.args[1] = 1
    /\ Cardinality(mrp_results) = 1
    /\ \A p \in FinishedGoods : ExplodedRequirement(p, Id("X"), 0) > 0

\* C7: the run nets one consolidated stream per leaf: each day's balance drops by
\* the sum over all active finished goods of that day's exploded requirement.
C7_RequirementsSummedAcrossGoods ==
    CompletedRun =>
        \A r \in mrp_results :
            r.projected_onhand =
                PreviousBalance(r)
                - ConsolidatedRequirement(r.product_id, r.result_date - today)

\* two goods using X at 1/unit demand 5 and 7 on day 0 with on_hand 10:
\* requirement 12, balance -2, shortage on day 0
C7_Witness ==
    /\ CompletedRun
    /\ Get(inventory, Id("X")) = 10
    /\ ExplodedRequirement(Id("FG1"), Id("X"), 0) = 5
    /\ ExplodedRequirement(Id("FG2"), Id("X"), 0) = 7
    /\ \E r \in RowsOf(Id("X")) :
          /\ r.result_date = today
          /\ r.projected_onhand = -2
          /\ r.shortage_date = Some(today)

-----------------------------------------------------------------------------
(* Properties of the BOM resolver (SpecExplode) *)

\* the last call was explode_bom_recursive(ExplodedRoot, ExplodedQty)
Exploded == response.op = "explode_bom_recursive"
ExplodedRoot == response.args[1]
ExplodedQty == response.args[2]

LinesOf(product_id) == {l \in bom_lines : l.parent_product_id = product_id}

IsSubAssembly(product_id) == products[product_id].type = "sub_assembly"

RECURSIVE PathsFrom(_, _)
\* the paths of at most `budget` lines from a product down to a leaf, through sub-assemblies
PathsFrom(product_id, budget) ==
    IF budget = 0 THEN {}
    ELSE {<<l>> : l \in {x \in LinesOf(product_id) : ~IsSubAssembly(x.component_product_id)}}
         \cup UNION {{<<l>> \o path : path \in PathsFrom(l.component_product_id, budget - 1)} :
                        l \in {x \in LinesOf(product_id) : IsSubAssembly(x.component_product_id)}}

RECURSIVE PathQuantity(_, _)
\* the demand quantity times the product of quantity_per along a path
PathQuantity(path, demand_qty) ==
    IF path = <<>> THEN demand_qty
    ELSE PathQuantity(Tail(path), demand_qty * Head(path).quantity_per)

\* the paths from the exploded root that end in a given leaf
PathsTo(leaf) ==
    {path \in PathsFrom(ExplodedRoot, MaxChain + 1) :
        path[Len(path)].component_product_id = leaf}

RECURSIVE NestingDepth(_, _)
\* levels of sub_assembly nesting below a product, counted up to `budget`
NestingDepth(product_id, budget) ==
    IF budget = 0 THEN 0
    ELSE LET subs == {l.component_product_id :
                         l \in {x \in LinesOf(product_id) : IsSubAssembly(x.component_product_id)}}
             depths == {1 + NestingDepth(sub, budget - 1) : sub \in subs}
         IN  IF subs = {} THEN 0
             ELSE CHOOSE d \in depths : \A e \in depths : e <= d

\* C8: when every line of the root points to a non-sub_assembly product, the result
\* maps each directly connected leaf to q times the line's quantity_per and has no
\* entry for any other product.
C8_FlatBomExplodes ==
    (Exploded /\ \A l \in LinesOf(ExplodedRoot) : ~IsSubAssembly(l.component_product_id)) =>
        /\ ~response.raised
        /\ DOMAIN response.result.requirements =
              {l.component_product_id : l \in LinesOf(ExplodedRoot)}
        /\ \A l \in LinesOf(ExplodedRoot) :
              response.result.requirements[l.component_product_id] =
                  ExplodedQty * l.quantity_per

\* the root has two leaf lines and no other, 2 units are exploded, and a
\* sub-assembly elsewhere has lines of its own
C8_Witness ==
    /\ Exploded
    /\ ExplodedRoot = Root
    /\ ExplodedQty = 2
    /\ LinesOf(Root) = {Edge(Root, Leaf(1), 1), Edge(Root, Leaf(2), 2)}
    /\ LinesOf(Sub(1)) # {}
    /\ response.result.requirements[Leaf(1)] = 2
    /\ response.result.requirements[Leaf(2)] = 4

\* C9: a leaf reached from the root by two or more distinct paths gets the sum over
\* the paths of the demand quantity times the product of quantity_per along the path.
C9_PathsAreSummed ==
    (Exploded /\ ~response.raised) =>
        \A leaf \in DOMAIN products :
            Cardinality(PathsTo(leaf)) >= 2 =>
                Get(response.result.requirements, leaf) =
                    SumOver([path \in PathsTo(leaf) |-> PathQuantity(path, ExplodedQty)],
                            PathsTo(leaf))

\* L1 is reached directly (1), through S1 (2 x 3) and through S2 (3 x 5): 22 per unit
C9_Witness ==
    /\ Exploded
    /\ ~response.raised
    /\ ExplodedRoot = Root
    /\ ExplodedQty = 1
    /\ Cardinality(PathsTo(Leaf(1))) = 3
    /\ Get(response.result.requirements, Leaf(1)) = 22

\* C10: a BOM with 11 levels of sub_assembly nesting below the root raises the depth
\* error; with exactly 10 levels the explosion succeeds and returns the leaf quantities.
C10_DepthGuard ==
    Exploded =>
        LET depth == NestingDepth(ExplodedRoot, MaxChain + 1)
        IN  /\ depth >= 11 => response.raised
            /\ depth = 10 =>
                  /\ ~response.raised
                  /\ \A leaf \in DOMAIN products :
                        Get(response.result.requirements, leaf) =
                            SumOver([path \in PathsTo(leaf) |->
                                        PathQuantity(path, ExplodedQty)],
                                    PathsTo(leaf))

\* a chain of exactly 10 sub-assemblies at 2 per level, one unit exploded: 3 * 2^10 of L1
C10_Witness ==
    /\ Exploded
    /\ ExplodedRoot = Root
    /\ ExplodedQty = 1
    /\ bom_lines = Chain(10, 2)
    /\ NestingDepth(Root, MaxChain + 1) = 10
    /\ ~response.raised
    /\ response.result.requirements = [leaf \in {Leaf(1)} |-> 3072]

-----------------------------------------------------------------------------
(* Error handling of the planning run (Spec) *)

\* exploding this finished good over the horizon raises the depth error
ExplosionRaises(product_id, days) ==
    explode_bom(product_id, get_demand_forecast(product_id, days)).raised

\* the leaf requirements this finished good contributes over the horizon
ExplosionOf(product_id, days) ==
    explode_bom(product_id, get_demand_forecast(product_id, days)).component_requirements

\* C11: when exploding any one finished good raises the depth error, the whole
\* calculate_mrp call raises to its caller: it returns no result for any product
\* and the table holds no row computed by that run.
C11_DepthErrorAbortsRun ==
    response.op = "calculate_mrp" =>
        LET days == response.args[1]
        IN  (\E product_id \in FinishedGoods : ExplosionRaises(product_id, days)) =>
                /\ response.raised
                /\ response.result = NoResult
                /\ mrp_results = {}

\* a run failed on one finished good while another one had requirements to plan
C11_Witness ==
    /\ response.op = "calculate_mrp"
    /\ response.raised
    /\ \E offender, other \in FinishedGoods :
          /\ ExplosionRaises(offender, response.args[1])
          /\ ~ExplosionRaises(other, response.args[1])
          /\ DOMAIN ExplosionOf(other, response.args[1]) # {}

-----------------------------------------------------------------------------
(* The result table as its readers see it (SpecConcurrent) *)

\* C12: a get_shortages served while a calculate_mrp run is in progress reads
\* either the complete result set the run replaces or the complete new one,
\* never an empty or partly rebuilt table.
C12_ReaderSeesWholeResultSet ==
    [][\A days \in 1..MaxDays :
          (get_shortages(days) /\ pc.at = "deleted") =>
              mrp_results \in {pc.replaced, RowsFromInputs(pc.days)}]_vars

-----------------------------------------------------------------------------
(* Properties of the lot-sizing function (SpecLot) *)

\* the last call was round_up_to_lot_size
RoundedUp == response.op = "round_up_to_lot_size"
LotQty == response.args[1]
LotSize == response.args[2]
LotMinimum == response.args[3]

Max(a, b) == IF a >= b THEN a ELSE b

\* C13 as stated: for every qty, order_multiple and minimum the result is at least
\* max(qty, minimum), and an integer multiple of order_multiple when that is > 0.
C13_AtLeastMaxAndMultiple ==
    RoundedUp =>
        /\ response.result.value >= Max(LotQty, LotMinimum)
        /\ LotSize > 0 => response.result.value % LotSize = 0

\* C13 amended: for every qty > 0 the result is at least max(qty, minimum); for
\* qty <= 0 it is 0; and it is an integer multiple of order_multiple when that is > 0.
C13_AtLeastMaxAndMultipleWhenPositive ==
    RoundedUp =>
        /\ LotQty > 0 => response.result.value >= Max(LotQty, LotMinimum)
        /\ LotQty <= 0 => response.result.value = 0
        /\ LotSize > 0 => response.result.value % LotSize = 0

\* a quantity below the minimum was raised to it and then rounded up to a lot
C13_Witness ==
    /\ RoundedUp
    /\ LotQty > 0 /\ LotQty < LotMinimum /\ LotSize > 0
    /\ response.result.value > LotMinimum

\* C14: round_up_to_lot_size is non-decreasing in qty for fixed order_multiple
\* and minimum, also from a qty <= 0 to a qty > 0.
C14_NonDecreasingInQty ==
    RoundedUp =>
        \A q1 \in LotQuantities :
            q1 <= LotQty =>
                round_up_to_lot_size(q1, LotSize, LotMinimum) <= response.result.value

\* a result above those of a smaller positive quantity and of a quantity <= 0
C14_Witness ==
    /\ RoundedUp
    /\ LotQty > 0 /\ LotSize > 0
    /\ \E q0, q1 \in LotQuantities :
          /\ q0 <= 0 /\ 0 < q1 /\ q1 < LotQty
          /\ round_up_to_lot_size(q0, LotSize, LotMinimum) = 0
          /\ round_up_to_lot_size(q1, LotSize, LotMinimum) > 0
          /\ round_up_to_lot_size(q1, LotSize, LotMinimum) < response.result.value

\* the smallest multiple of lot_size that is not below qty (qty > 0, lot_size > 0)
SmallestMultipleNotBelow(qty, lot_size) ==
    CHOOSE m \in {k * lot_size : k \in 0..(qty \div lot_size + 1)} :
        /\ m >= qty
        /\ m - lot_size < qty

\* the lot-sizing rule as the specification words it
LotSized(qty, order_multiple, minimum) ==
    IF qty <= 0 THEN 0
    ELSE LET raised_qty == Max(qty, minimum)
         IN  IF order_multiple > 0 THEN SmallestMultipleNotBelow(raised_qty, order_multiple)
             ELSE raised_qty

\* C15: round_up_to_lot_size returns 0 for qty <= 0, else raises qty to the minimum
\* and returns the smallest multiple of order_multiple not below that (the value
\* itself when order_multiple <= 0); recommended_order_qty is that function of the
\* product's reorder_qty, order_multiple and minimum_order_qty; 100/30/50 gives 120.
C15_SmallestMultipleNotBelow ==
    /\ RoundedUp => response.result.value = LotSized(LotQty, LotSize, LotMinimum)
    /\ response.op = "recommended_order_qty" =>
           response.result.value = LotSized(LotQty, LotSize, LotMinimum)
    /\ (response.op = "recommended_order_qty" /\ response.args = <<10000, 3000, 5000>>) =>
           response.result.value = 12000

-----------------------------------------------------------------------------
(* Properties of the alert list (SpecAdvisor) *)

\* the last call was get_shortages; its alerts and its horizon
Advised == response.op = "get_shortages"
Alerts == response.result.alerts
AdvisedDays == response.args[1]

\* the products with a row that needs ordering up to the cutoff date
AdvisedProducts == {r.product_id : r \in ShortageResults(AdvisedDays)}

\* the date by which a product's order must be placed: the date of its earliest
\* kept row (or that row's shortage date) less the lead time
OrderByDate(product_id) ==
    AlertShortageDate(EarliestResult(ShortageResults(AdvisedDays), product_id))
        - products[product_id].lead_time_days

\* C16: every alert returned by get_shortages(days) has order_by_date <= today +
\* days, and a component whose order_by_date is later gets no alert.
C16_AlertsWithinWindow ==
    Advised =>
        /\ \A i \in DOMAIN Alerts : Alerts[i].order_by_date <= today + AdvisedDays
        /\ \A product_id \in AdvisedProducts :
              OrderByDate(product_id) > today + AdvisedDays =>
                  \A i \in DOMAIN Alerts : Alerts[i].product_id # product_id

\* one component was left out for its late order-by date while another was alerted
C16_Witness ==
    /\ Advised
    /\ Alerts # <<>>
    /\ \E product_id \in AdvisedProducts :
          /\ OrderByDate(product_id) > today + AdvisedDays
          /\ \A i \in DOMAIN Alerts : Alerts[i].product_id # product_id

\* where the alert of a product stands in a list
PositionIn(list, product_id) ==
    CHOOSE i \in DOMAIN list : list[i].product_id = product_id

\* C17: the list returned by get_shortages is ordered by non-decreasing
\* order_by_date, and alerts with the same order_by_date keep the relative order
\* in which they were built.
C17_SortedAndStable ==
    Advised =>
        /\ {Alerts[i] : i \in DOMAIN Alerts}
              = {response.result.unsorted[i] : i \in DOMAIN response.result.unsorted}
        /\ Len(Alerts) = Len(response.result.unsorted)
        /\ \A i, j \in DOMAIN Alerts :
              i < j =>
                  /\ Alerts[i].order_by_date <= Alerts[j].order_by_date
                  /\ Alerts[i].order_by_date = Alerts[j].order_by_date =>
                         PositionIn(response.result.unsorted, Alerts[i].product_id)
                             < PositionIn(response.result.unsorted, Alerts[j].product_id)

\* three alerts: the sort moved a later order-by date behind two equal ones, which
\* kept the order in which they were built
C17_Witness ==
    /\ Advised
    /\ Len(Alerts) = 3
    /\ Alerts # response.result.unsorted
    /\ Alerts[1].order_by_date = Alerts[2].order_by_date
    /\ Alerts[2].order_by_date < Alerts[3].order_by_date
    /\ Alerts[1].product_id > Alerts[2].product_id

-----------------------------------------------------------------------------
(* Properties of the dynamic reorder-point report (SpecReorder) *)

\* the last call was get_dynamic_reorder_points; the entries it returned
Reported == response.op = "get_dynamic_reorder_points"
Entries == {response.result.components[i] : i \in DOMAIN response.result.components}

\* a product's goal for the week starting on week_start (0 without a row)
GoalOf(product_id, week_start) ==
    LET rows == {row \in weekly_shipments : /\ row.product_id = product_id
                                            /\ row.week_start_date = week_start}
    IN  IF rows = {} THEN 0 ELSE (CHOOSE row \in rows : TRUE).goal

RECURSIVE WeeklyDemand(_, _)
\* the demand for a component in one calendar week: goal times quantity_per,
\* summed over the BOM lines of its direct parents
WeeklyDemand(lines, week_start) ==
    IF lines = {} THEN 0
    ELSE LET l == CHOOSE x \in lines : TRUE
         IN  GoalOf(l.parent_product_id, week_start) * l.quantity_per
                 + WeeklyDemand(lines \ {l}, week_start)

RECURSIVE SumWeeks(_, _)
SumWeeks(component_id, weeks) ==
    IF weeks = {} THEN 0
    ELSE LET w == CHOOSE x \in weeks : TRUE
         IN  WeeklyDemand(ComponentUsage(component_id), w)
                 + SumWeeks(component_id, weeks \ {w})

\* the weeks of the next six in which the component has demand
WeeksWithDemand(component_id) ==
    {w \in WeekStarts : WeeklyDemand(ComponentUsage(component_id), w) # 0}

\* C18: a component's average_weekly_usage is its weekly demand summed over the
\* weeks of the next six with a nonzero total, divided by the number of those
\* weeks (to two decimals), and 0 when no week has data, also when a parent has
\* the same goal in several weeks or two parents have goals in different weeks.
C18_AverageOverCalendarWeeks ==
    Reported =>
        \A e \in Entries :
            e.average_weekly_usage =
                IF WeeksWithDemand(e.product_id) = {} THEN 0
                ELSE Round2(SumWeeks(e.product_id, WeeksWithDemand(e.product_id)),
                            Cardinality(WeeksWithDemand(e.product_id)))

\* C19: for every entry, dynamic_reorder_point is average_weekly_usage times 6
\* plus safety_stock, and six_week_usage is average_weekly_usage times 6.
C19_SixWeeksPlusSafetyStock ==
    Reported =>
        \A e \in Entries :
            /\ e.dynamic_reorder_point = e.average_weekly_usage * 6 + e.safety_stock
            /\ e.six_week_usage = e.average_weekly_usage * 6

\* C20: computing the report changes no persisted state, in particular no
\* product's reorder_point; a reorder_point changes only in a step of
\* update_reorder_points_from_dynamic.
C20_ReportWritesNothing ==
    [][/\ get_dynamic_reorder_points =>
             UNCHANGED <<products, bom_lines, daily_demand, inventory, purchase_orders,
                         mrp_results, weekly_shipments>>
       /\ (\E p \in DOMAIN products :
              products'[p].reorder_point # products[p].reorder_point) =>
             update_reorder_points_from_dynamic]_vars

\* a report whose computed value differs from the reorder_point still stored
C20_Witness ==
    /\ Reported
    /\ \E e \in Entries :
          /\ e.dynamic_reorder_point # e.current_reorder_point
          /\ e.dynamic_reorder_point > e.safety_stock
          /\ products[e.product_id].reorder_point = e.current_reorder_point

-----------------------------------------------------------------------------
(* Product ids without a record (SpecOrphan) *)

RECURSIVE ReachesUnknown(_, _)
\* a BOM line under this product, through at most `budget` nested sub-assemblies,
\* names a component that has no Product row
ReachesUnknown(product_id, budget) ==
    \E l \in LinesOf(product_id) :
        \/ l.component_product_id \notin DOMAIN products
        \/ /\ budget > 0
           /\ l.component_product_id \in DOMAIN products
           /\ products[l.component_product_id].type = "sub_assembly"
           /\ ReachesUnknown(l.component_product_id, budget - 1)

\* the finished good has a forecast quantity > 0 on some day of the horizon
HasDemand(product_id, days) ==
    \E d \in 0..(days - 1) : get_demand_forecast(product_id, days)[d] > 0

\* C21: when a planning run comes upon a product id that has no Product record,
\* calculate_mrp raises; it does not skip that component and complete with the
\* remaining ones.
C21_MissingRecordSurfaces ==
    response.op = "calculate_mrp" =>
        ((\E p \in FinishedGoods :
              /\ HasDemand(p, response.args[1])
              /\ ReachesUnknown(p, Cardinality(bom_lines)))
            => /\ response.raised
               /\ response.result = NoResult
               /\ mrp_results = {})

\* a run raised on a missing record while another finished good had components
\* with records to plan
C21_Witness ==
    /\ response.op = "calculate_mrp"
    /\ response.raised
    /\ \E p, q \in FinishedGoods :
          /\ HasDemand(p, response.args[1])
          /\ ReachesUnknown(p, Cardinality(bom_lines))
          /\ HasDemand(q, response.args[1])
          /\ ~ReachesUnknown(q, Cardinality(bom_lines))
          /\ LinesOf(q) # {}

-----------------------------------------------------------------------------
(* Properties of the rows of a run (SpecNetting) *)

\* C22: every MRPResult row written by calculate_mrp has needs_ordering = true
\* exactly when its projected_onhand is strictly below the component's
\* reorder_point; a balance equal to the reorder_point is not flagged.
C22_FlagIffBelowReorderPoint ==
    CompletedRun =>
        \A r \in mrp_results :
            r.needs_ordering <=>
                r.projected_onhand < products[r.product_id].reorder_point

\* the products that have a row in the table
ProjectedComponents == {r.product_id : r \in mrp_results}

\* the dates of a run of `days` days
HorizonDates(days) == today..(today + days - 1)

\* C23: after a completed calculate_mrp(days) the table holds exactly one row per
\* (product_id, date): every projected component has a row for each date from
\* today to today + days - 1 and for no other date, and no two rows share
\* product_id and date.
C23_OneRowPerComponentAndDate ==
    CompletedRun =>
        LET days == response.args[1]
        IN  /\ \A c \in ProjectedComponents :
                  {r.result_date : r \in RowsOf(c)} = HorizonDates(days)
            /\ \A r1, r2 \in mrp_results :
                  (r1.product_id = r2.product_id /\ r1.result_date = r2.result_date)
                      => r1 = r2

\* a two-day run that followed another run and left two rows for X
C23_Witness ==
    /\ CompletedRun
    /\ response.args[1] = 2
    /\ Cardinality(RowsOf(Id("X"))) = 2
    /\ \E r \in RowsOf(Id("X")) : r.projected_onhand < 0

-----------------------------------------------------------------------------
(* Products outside every BOM (SpecUnused) *)

\* the product is the component of some BOM line
OnSomeEdge(product_id) == \E l \in bom_lines : l.component_product_id = product_id

\* C24: a product that is not the component of any BOM line gets no MRPResult
\* row from a run, whatever its inventory, reorder point or type.
C24_NoRowOffTheBom ==
    CompletedRun => \A r \in mrp_results : OnSomeEdge(r.product_id)

\* a run that wrote rows while the unused component W, stocked below its reorder
\* point, and the finished goods and the sub-assembly were on no line
C24_Witness ==
    /\ CompletedRun
    /\ mrp_results # {}
    /\ ~OnSomeEdge(UnusedComponent)
    /\ Get(inventory, UnusedComponent) > 0
    /\ Get(inventory, UnusedComponent) < products[UnusedComponent].reorder_point
    /\ \A p \in FinishedGoods : ~OnSomeEdge(p)
    /\ ~OnSomeEdge(Id("SA"))

-----------------------------------------------------------------------------
(* Stock balances and receipts (SpecStock, SpecReceiving) *)

\* C25: the stored on_hand of every product is never negative, after any sequence
\* of adjust_inventory, receive_purchase_order and undo_purchase_order_receipt
\* calls that starts from non-negative balances.
C25_OnHandNeverNegative == \A p \in DOMAIN inventory : inventory[p] >= 0

\* the received orders of a product
ReceivedOrders(product_id) ==
    {po \in purchase_orders : po.product_id = product_id /\ po.status = "received"}

\* what the received orders of a product brought in
ReceivedTotal(product_id) ==
    SumOver([po \in ReceivedOrders(product_id) |-> ReceivedQty(po)],
            ReceivedOrders(product_id))

\* on_hand is the starting stock and the received quantity of the orders that are
\* received, and of no other order
ReceiptsCounted ==
    \A p \in DOMAIN products :
        Get(inventory, p) = Get(InitialOnHand, p) + ReceivedTotal(p)

\* the call that made this step, from its response
Called(op, po_number) == response'.op = op /\ response'.args[1] = po_number

\* C29: over receive and undo-receipt calls, an order's received quantity is in
\* on_hand exactly while the order's status is received: receive on a received
\* order is rejected and leaves the order and on_hand unchanged, undo on an order
\* that is not received is rejected and leaves them unchanged, and a receive
\* followed by a successful undo leaves on_hand as it was before the receive and
\* the status pending.
C29_ReceiptCountedWhileReceived ==
    [][/\ ReceiptsCounted'
       /\ \A po \in purchase_orders :
             /\ (Called("receive_purchase_order", po.po_number)
                    /\ po.status = "received")
                  => response'.raised /\ UNCHANGED <<inventory, purchase_orders>>
             /\ (Called("undo_purchase_order_receipt", po.po_number)
                    /\ po.status # "received")
                  => response'.raised /\ UNCHANGED <<inventory, purchase_orders>>
             /\ (/\ response.op = "receive_purchase_order"
                 /\ ~response.raised
                 /\ response.args[1] = po.po_number
                 /\ Called("undo_purchase_order_receipt", po.po_number)
                 /\ ~response'.raised)
                  => /\ Get(inventory', po.product_id)
                            = response.result.value - response.args[2]
                     /\ \E after \in purchase_orders' :
                            /\ after.po_number = po.po_number
                            /\ after.status = "pending"]_vars

\* a receipt of 5.00 was undone while the other order stayed received with 3.00
C29_Witness ==
    /\ response.op = "undo_purchase_order_receipt"
    /\ ~response.raised
    /\ \E po \in purchase_orders : po.status = "received" /\ ReceivedQty(po) = 3
    /\ \E po \in purchase_orders : po.status = "pending" /\ po.po_number = response.args[1]
    /\ Get(inventory, Id("X")) = Get(InitialOnHand, Id("X")) + 3

-----------------------------------------------------------------------------
(* Purchase orders in the daily build analysis (SpecAnalysis) *)

\* the last call was a get_daily_build_analysis
Analysed == response.op = "get_daily_build_analysis"

\* the entries of the returned 'components' list
AnalysisEntries == {response.result.components[i] : i \in DOMAIN response.result.components}

\* the balance a day of an entry starts from
BalanceBefore(e, n) ==
    IF n = 1 THEN e.current_stock ELSE e.daily_data[n - 1].projected_inventory

\* C27: in the day-by-day projection of get_daily_build_analysis the balance of a
\* day is the balance before it, less the day's consumption, plus the quantities
\* of the purchase orders of the component that are pending and expected on that
\* day, summed; so an order that is received or cancelled, or expected before
\* today or after the horizon, changes no balance.
C27_OnlyPendingOrdersInHorizonCount ==
    Analysed =>
        \A e \in AnalysisEntries : \A n \in DOMAIN e.daily_data :
            e.daily_data[n].projected_inventory =
                BalanceBefore(e, n) - e.daily_data[n].consumption
                    + PendingReceipts(e.component_id, e.daily_data[n].date)

\* an analysis over the Friday on which two pending orders of 0.05 each arrive,
\* with consumption that day
C27_Witness ==
    /\ Analysed
    /\ \E e \in AnalysisEntries :
          /\ e.daily_data[1].consumption > 0
          /\ e.daily_data[1].incoming_po = 10

-----------------------------------------------------------------------------
(* Termination of the BOM resolver (SpecRecursion) *)

\* a call of explode_bom_recursive is under way
InExplosion == pc.at = "exploding"

\* the last call of explode_bom_recursive raised
ExplosionRaised == response.op = "explode_bom_recursive" /\ response.raised

\* C26: explode_bom_recursive terminates on every BOM, cyclic sub-assembly lines
\* included: a call that was entered returns or raises; no frame is deeper than
\* one level past the limit of 10, and the depth error is raised at exactly that
\* level.
C26_ExplosionTerminates ==
    /\ [](InExplosion =>
            /\ Len(pc.stack) <= MaxLevel + 2
            /\ \A i \in DOMAIN pc.stack : pc.stack[i].level = i - 1)
    /\ [](ExplosionRaised => response.result.value = MaxLevel + 1)
    /\ (InExplosion ~> ~InExplosion)

\* a call on a BOM whose sub-assemblies use each other ended with the depth error
C26_Witness ==
    /\ ExplosionRaised
    /\ ~InExplosion
    /\ \E l1, l2 \in bom_lines : /\ l1.parent_product_id = l2.component_product_id
                                 /\ l2.parent_product_id = l1.component_product_id
                                 /\ l1 # l2

\* what the frames compute is what the recursive definition gives
StepsAgreeWithRecursion ==
    (response.op = "explode_bom_recursive" /\ ~InExplosion) =>
        LET result == explode_bom_recursive(response.args[1], response.args[2], 0)
        IN  /\ response.raised = result.raised
            /\ ~response.raised => response.result.requirements = result.requirements

-----------------------------------------------------------------------------
(* Which components a run projects (SpecForecast) *)

\* a forecast row of the product with a quantity > 0 on a day of the horizon
ForecastInHorizon(product_id, days) ==
    \E r \in daily_demand : /\ r.product_id = product_id
                            /\ r.demand_date \in HorizonDates(days)
                            /\ r.quantity > 0

RECURSIVE ReachesLeaf(_, _, _)
\* a BOM line under this product, through at most `budget` nested sub-assemblies,
\* has the component as a leaf
ReachesLeaf(product_id, component_id, budget) ==
    \E l \in LinesOf(product_id) :
        \/ /\ l.component_product_id = component_id
           /\ ~IsSubAssembly(component_id)
        \/ /\ budget > 0
           /\ IsSubAssembly(l.component_product_id)
           /\ ReachesLeaf(l.component_product_id, component_id, budget - 1)

\* an active finished good with demand in the horizon reaches the component
DemandReaches(component_id, days) ==
    \E p \in DOMAIN products :
        /\ products[p].type = "finished_good"
        /\ products[p].is_active
        /\ ForecastInHorizon(p, days)
        /\ ReachesLeaf(p, component_id, Cardinality(DOMAIN products))

\* the products projected are those that demand reaches
RowsWhereDemandReaches(days) ==
    \A c \in DOMAIN products : (RowsOf(c) # {}) <=> DemandReaches(c, days)

\* C28 as stated: calculate_mrp leaves rows for a leaf component exactly when an
\* active finished good that reaches it through the BOM has forecast demand > 0
\* on some day of the horizon.
C28_RowsIffDemandReaches ==
    response.op = "calculate_mrp" => RowsWhereDemandReaches(response.args[1])

\* C28, for the runs that return: a calculate_mrp that completes leaves rows for a
\* leaf component exactly when an active finished good that reaches it through
\* the BOM has forecast demand > 0 on some day of the horizon; a component that
\* no such demand reaches has no row, even with on_hand below its reorder point.
C28_CompletedRunRowsIffDemandReaches ==
    CompletedRun => RowsWhereDemandReaches(response.args[1])

\* a completed run left X, out of stock and below its reorder point, without rows:
\* FG1 is forecast at zero, and FG2, with a forecast in the horizon, is inactive
C28_Witness ==
    /\ CompletedRun
    /\ RowsOf(Id("X")) = {}
    /\ Get(inventory, Id("X")) < products[Id("X")].reorder_point
    /\ \E r \in daily_demand : /\ r.product_id = Id("FG1")
                               /\ r.demand_date \in HorizonDates(response.args[1])
                               /\ r.quantity = 0
    /\ ~products[Id("FG2")].is_active
    /\ ForecastInHorizon(Id("FG2"), response.args[1])
    /\ ReachesLeaf(Id("FG2"), Id("X"), Cardinality(DOMAIN products))

-----------------------------------------------------------------------------
(* What update_reorder_points_from_dynamic writes (SpecUpdate) *)

\* the step is a call of update_reorder_points_from_dynamic
UpdateStep == response'.op = "update_reorder_points_from_dynamic"

\* the product is an active product of type 'component'
ActiveComponent(p) == products[p].type = "component" /\ products[p].is_active

====
